---- MODULE Spec2Model ----
(***************************************************************************)
(* A model of the realtime ETA pipeline of tj-backend: the fix             *)
(* preprocessor, the route adherence test, the windowed trip-direction     *)
(* voter, the along-shape distance, the horizon projector and the poll     *)
(* loop that drives them.                                                  *)
(*                                                                         *)
(* Coordinates are metres in a local plane, as integers: a point is        *)
(* <<lon, lat>> where the code holds (longitude, latitude) and             *)
(* <<lat, lon>> where it holds (latitude, longitude).  Distances are kept  *)
(* squared, so every comparison against a threshold is exact.              *)
(***************************************************************************)
EXTENDS Integers, Sequences, FiniteSets, TLC

VARIABLES
    \* TripDeterminer._determine_trip_helper
    K, route_name, previous_point, queueK, results_trip, no_methods, vpc,
    \* what the loop has read: the last two rows, previous_point as it was
    \* before the last row, the shapes every row so far lies on in the order
    \* of travel, and whether all consecutive rows were more than 15 m apart
    last_row, prev_row, pp_before, on_shapes, gaps_ok,
    \* the trips _choose_trip returned for the rows it did not skip, in order
    choices,
    \* ETAPredictor.predict_eta: the window, the position in it, the
    \* accumulator, the rows generated for the last fix, the published ETAs
    gps, ppc, row_i, preds, modified_rows, eta_result,
    \* what the loop has accumulated: the next_stops of each fix processed
    row_stops,
    \* the accumulator as it was when the first task returned it
    first_preds,
    \* self.map[trip]['shape'], the lists next_stop_distance edits in place
    map_shape,
    \* RouteAnalyzer.next_stop_distance: position, arguments, locals, the
    \* shapes as they were at the call, the number of calls made
    npc, n_args, insert_index, total_distance, shape_before, n_calls,
    \* two tasks inside next_stop_distance at once, as on OS threads: for each
    \* its position, its arguments and its locals
    threads,
    \* a raw batch and the results of preprocess_gps_data applied to it once
    \* and then to its own output
    raw_batch, once, twice, prepc,
    \* categorize_stop: the stop_mean_eta table it is given, the table with
    \* its categorized_stop column, the position
    b_table, b_out, bpc,
    \* predict_async: the batch, the next task, the results gathered so far,
    \* how each task ended, the returned map, the position
    d_df, d_i, d_results, d_flags, d_out, dpc,
    \* main.py: the redis lists bus.<bus_code> (newest first), the redis
    \* hashes stop.<stop_id> as a map from <<stop, bus>> to the ETA time, the
    \* clock in seconds, the position in poll(), whether the last poll_api
    \* ended in tj_login, the number of polls
    history, eta_store, now, tpc, relogin, ticks,
    \* the stores as they were when the tick began, the fetched rows and the
    \* prediction of the tick
    history0, eta_store0, tick_df, tick_prediction,
    \* what each task of the tick's predict_async left of determine_trip,
    \* every row pushed onto each list bus.<bus_code> since the key exists
    \* (newest first), the ETA store and the clock as they were when
    \* prune_trip_eta began
    tick_tasks, push_log, prune_store0, prune_now,
    \* PubSubWebSocketManager: self.channels (channel -> list of websockets),
    \* the id of pubsub_client.pubsub (0 for None), the pubsub objects made
    \* so far (the channels each is subscribed to, the messages redis has
    \* queued for it), the reader tasks, the websocket handlers
    channels, pubsub, pubsubs, readers, client,
    \* the channel of each message published, how often each message was
    \* sent to each websocket, the <<message, websocket>> pairs registered
    \* when a reader took the message, the websockets whose send raises
    msgs, sent, due, broken

voterVars == <<K, route_name, previous_point, queueK, results_trip,
               no_methods, vpc, last_row, prev_row, pp_before, on_shapes,
               gaps_ok, choices>>

projVars == <<gps, ppc, row_i, preds, row_stops, modified_rows, eta_result,
              first_preds>>

shapeVars == <<map_shape, npc, n_args, insert_index, total_distance,
               shape_before, n_calls, threads>>

preVars == <<raw_batch, once, twice, prepc, b_table, b_out, bpc>>

driverVars == <<d_df, d_i, d_results, d_flags, d_out, dpc>>

sockVars == <<channels, pubsub, pubsubs, readers, client, msgs, sent, due, broken>>

tickVars == <<history, eta_store, now, tpc, relogin, ticks, history0, eta_store0,
              tick_df, tick_prediction, tick_tasks, push_log, prune_store0,
              prune_now, sockVars>>

vars == <<voterVars, projVars, shapeVars, preVars, driverVars, tickVars>>

--------------------------------------------------------------------------
(* Bounds of the model                                                     *)

MaxFixes == 5
MaxVotes == 7
MaxMessages == 2
MaxPubsubs == 4
MaxWindow == 2
MaxCalls == 2
MaxBatch == 2
MaxTicks == 1

--------------------------------------------------------------------------
(* Python values                                                           *)

None == "None"
NoPoint == <<>>

Min2(a, b) == IF a <= b THEN a ELSE b
Max2(a, b) == IF a >= b THEN a ELSE b

\* s[i] of a Python list, i counted from 0, a negative i from the end
PyAt(s, i) == IF i < 0 THEN s[Len(s) + i + 1] ELSE s[i + 1]

\* point[::-1]
Rev(p) == <<p[2], p[1]>>

\* list.index(x), -1 standing for its ValueError
ListIndex(s, x) ==
    IF \E i \in 1..Len(s) : s[i] = x
    THEN (CHOOSE i \in 1..Len(s) : s[i] = x /\ \A j \in 1..(i - 1) : s[j] # x) - 1
    ELSE -1

\* s[l : r + 1] for 0 <= l
PySlice(s, l, r) ==
    IF l > Min2(r, Len(s) - 1) THEN <<>> ELSE SubSeq(s, l + 1, Min2(r, Len(s) - 1) + 1)

\* s.insert(i, x) for 0 <= i <= len(s)
list_insert(s, i, x) == SubSeq(s, 1, i) \o <<x>> \o SubSeq(s, i + 1, Len(s))

\* s.pop(): the list without its last element
list_pop_last(s, i) == SubSeq(s, 1, Len(s) - 1)

\* s.pop(i): the list without the element at i
list_pop(s, i) == SubSeq(s, 1, i) \o SubSeq(s, i + 2, Len(s))

\* the first index at which the function d is least
ArgMin(d) ==
    CHOOSE i \in DOMAIN d :
        \A j \in DOMAIN d : d[i] < d[j] \/ (d[i] = d[j] /\ i <= j)

\* the integer part of the square root
RECURSIVE SqrtFrom(_, _)
SqrtFrom(n, r) == IF r * r <= n THEN r ELSE SqrtFrom(n, (r + n \div r) \div 2)
ISqrt(n) == IF n = 0 THEN 0 ELSE SqrtFrom(n, n)

--------------------------------------------------------------------------
(* helper.py                                                               *)

\* equirectangular_approx_distance(coord1, coord2)["meters"], squared.
\* coord = <<lat, lon>>; in the local plane cos((lat1 + lat2) / 2) is 1.
equirectangular_approx_distance(coord1, coord2) ==
    LET x == coord2[2] - coord1[2]
        y == coord2[1] - coord1[1]
    IN  x * x + y * y

--------------------------------------------------------------------------
(* shapely and scipy, on polylines whose segments are parallel to an axis  *)

Clamp(v, a, b) == Max2(Min2(a, b), Min2(v, Max2(a, b)))

PlaneDistSq(p, q) == (p[1] - q[1]) * (p[1] - q[1]) + (p[2] - q[2]) * (p[2] - q[2])

\* the point of segment [a, b] nearest to p
NearestOnSegment(p, a, b) ==
    IF a[2] = b[2]
    THEN <<Clamp(p[1], a[1], b[1]), a[2]>>
    ELSE <<a[1], Clamp(p[2], a[2], b[2])>>

\* nearest_points(line, Point(p))[0]: the nearest point of the polyline
nearest_points(line, p) ==
    LET cand(i) == NearestOnSegment(p, line[i], line[i + 1])
    IN  cand(ArgMin([i \in 1..(Len(line) - 1) |-> PlaneDistSq(p, cand(i))]))

\* cKDTree(points).query(p)[1]: the index, from 0, of the nearest vertex
kdtree_query(points, p) ==
    ArgMin([i \in 1..Len(points) |-> PlaneDistSq(p, points[i])]) - 1

--------------------------------------------------------------------------
(* The static schedule data (gtfs.zip): three corridors. 4B has two         *)
(* directions whose terminal stops are distinct platforms, 9H has two      *)
(* directions that share their terminal stops, D21 has one direction.      *)

\* feed.trips: route_id, trip_id, shape_id, in file order
feed_trips ==
    << [route_id |-> "4B",  trip_id |-> "4B-R01",  shape_id |-> "4B-R01_shp"],
       [route_id |-> "4B",  trip_id |-> "4B-R02",  shape_id |-> "4B-R02_shp"],
       [route_id |-> "D21", trip_id |-> "D21-R01", shape_id |-> "D21-R01_shp"],
       [route_id |-> "9H",  trip_id |-> "9H-R04",  shape_id |-> "9H-R04_shp"],
       [route_id |-> "9H",  trip_id |-> "9H-R05",  shape_id |-> "9H-R05_shp"] >>

\* feed.shapes: the points (shape_pt_lon, shape_pt_lat) of each shape
feed_shapes ==
    [ s \in {"4B-R01_shp", "4B-R02_shp", "D21-R01_shp", "9H-R04_shp", "9H-R05_shp"} |->
        CASE s = "4B-R01_shp"  -> << <<0, 0>>, <<30, 0>>, <<60, 0>>, <<90, 0>> >>
          [] s = "4B-R02_shp"  -> << <<90, 30>>, <<40, 30>>, <<40, 10>>, <<0, 10>> >>
          [] s = "D21-R01_shp" -> << <<0, 0>>, <<30, 0>>, <<60, 0>>, <<90, 0>> >>
          [] s = "9H-R04_shp"  -> << <<0, 50>>, <<30, 50>>, <<60, 50>> >>
          [] s = "9H-R05_shp"  -> << <<60, 50>>, <<60, 60>>, <<0, 60>>, <<0, 50>> >> ]

Routes == {"4B", "D21"}

\* the shape ids of a route, in the order of feed.shapes
ShapeIdsOf(route) ==
    LET idx == {i \in 1..Len(feed_trips) : feed_trips[i].route_id = route}
        F[n \in 0..Len(feed_trips)] ==
            IF n = 0 THEN <<>>
            ELSE IF n \in idx THEN Append(F[n - 1], feed_trips[n].shape_id)
                 ELSE F[n - 1]
    IN  F[Len(feed_trips)]

\* the trip of a shape: feed.trips[feed.trips.shape_id == shape]['trip_id'][0]
TripOfShape(shape_id) ==
    feed_trips[CHOOSE i \in 1..Len(feed_trips) :
                   /\ feed_trips[i].shape_id = shape_id
                   /\ \A j \in 1..(i - 1) : feed_trips[j].shape_id # shape_id].trip_id

ShapeOfTrip(trip_id) ==
    feed_trips[CHOOSE i \in 1..Len(feed_trips) : feed_trips[i].trip_id = trip_id].shape_id

TripIds == {feed_trips[i].trip_id : i \in 1..Len(feed_trips)}

FeedRoutes == {feed_trips[i].route_id : i \in 1..Len(feed_trips)}

\* map.pickle: per trip the shape as (lat, lon) points, the stop standing at
\* each shape point ("." where there is none), the paired opposite trip and
\* jarak, the distance in metres from each stop to the next one
RevAll(line) == [i \in 1..Len(line) |-> Rev(line[i])]

trip_map ==
    [ t \in TripIds |->
        CASE t = "4B-R01" ->
               [shape  |-> RevAll(feed_shapes["4B-R01_shp"]),
                status |-> <<"a0", ".", "a1", "a2">>,
                pair   |-> "4B-R02",
                jarak  |-> [st \in {"a0", "a1", "a2"} |->
                              CASE st = "a0" -> 60 [] st = "a1" -> 30 [] OTHER -> 0]]
          [] t = "4B-R02" ->
               [shape  |-> RevAll(feed_shapes["4B-R02_shp"]),
                status |-> <<"b0", "b1", ".", "b2">>,
                pair   |-> "4B-R01",
                jarak  |-> [st \in {"b0", "b1", "b2"} |->
                              CASE st = "b0" -> 50 [] st = "b1" -> 60 [] OTHER -> 0]]
          [] t = "D21-R01" ->
               [shape  |-> RevAll(feed_shapes["D21-R01_shp"]),
                status |-> <<"d0", ".", "d1", "d2">>,
                pair   |-> None,
                jarak  |-> [st \in {"d0", "d1", "d2"} |->
                              CASE st = "d0" -> 60 [] st = "d1" -> 30 [] OTHER -> 0]]
          [] t = "9H-R04" ->
               [shape  |-> RevAll(feed_shapes["9H-R04_shp"]),
                status |-> <<"h0", "h1", "h2">>,
                pair   |-> "9H-R05",
                jarak  |-> [st \in {"h0", "h1", "h2"} |->
                              CASE st = "h0" -> 30 [] st = "h1" -> 30 [] OTHER -> 0]]
          [] t = "9H-R05" ->
               [shape  |-> RevAll(feed_shapes["9H-R05_shp"]),
                status |-> <<"h2", "h3", ".", "h0">>,
                pair   |-> "9H-R04",
                jarak  |-> [st \in {"h2", "h3", "h0"} |->
                              CASE st = "h2" -> 10 [] st = "h3" -> 70 [] OTHER -> 0]] ]

StopIds == {"a0", "a1", "a2", "b0", "b1", "b2", "d0", "d1", "d2", "h0", "h1", "h2", "h3"}

--------------------------------------------------------------------------
(* trip_determiner.py                                                      *)

KDefault == 5

\* _create_shape_koridor / _get_trip_names
trip1_name_of(route) == ShapeIdsOf(route)[1]
trip2_name_of(route) ==
    IF Len(ShapeIdsOf(route)) > 1 THEN ShapeIdsOf(route)[2] ELSE None

\* _get_nearest_distance(point, line), in metres, squared
get_nearest_distance(point, line) ==
    equirectangular_approx_distance(Rev(point), Rev(nearest_points(line, point)))

\* abs(d1 - d2) > 20 for the squared distances a = d1^2 and b = d2^2
AbsDiffExceeds(a, b, t) ==
    LET lhs == a + b - t * t
    IN  lhs > 0 /\ lhs * lhs > 4 * a * b

\* _first_passed from the vertex indices idxA and idxB on: <<first, idxs>>
first_of(pointA, pointB, line, idxA, idxB) ==
    LET n == Len(line)
        idxs == <<Min2(idxA, idxB), Min2(n - idxA, n - idxB)>>
        prev_point == PyAt(line, idxA - 1)
        distA == equirectangular_approx_distance(Rev(prev_point), Rev(pointA))
        distB == equirectangular_approx_distance(Rev(prev_point), Rev(pointB))
    IN  IF idxA < idxB THEN <<"A", idxs>>
        ELSE IF idxA > idxB THEN <<"B", idxs>>
        ELSE <<IF distA < distB THEN "A" ELSE "B", idxs>>

\* _first_passed(pointA, pointB, line, tree): <<first, idxs>>
first_passed(pointA, pointB, line) ==
    first_of(pointA, pointB, line,
             kdtree_query(line, nearest_points(line, pointA)),
             kdtree_query(line, nearest_points(line, pointB)))

SkipThreshold == 15
TieThreshold == 20

\* the branches of _choose_trip with the skip test reached only on a
\* one-direction corridor
choose_of_skip_last(prev_pt, trip1_name, trip2_name, d1, d2, skip, fp) ==
    LET nearer == IF d1 < d2 THEN trip1_name ELSE trip2_name
    IN  IF trip2_name # None /\ prev_pt = NoPoint THEN <<nearer, 1>>
        ELSE IF trip2_name # None /\ AbsDiffExceeds(d1, d2, TieThreshold)
             THEN <<nearer, 2>>
        ELSE IF trip2_name = None /\ prev_pt = NoPoint THEN <<trip1_name, 2>>
        ELSE IF trip2_name # None
             THEN IF fp[2][1] <= 1 THEN <<trip1_name, 4>>
                  ELSE IF fp[2][2] <= 1 THEN <<trip2_name, 5>>
                  ELSE <<IF fp[1] = "A" THEN trip1_name ELSE trip2_name, 6>>
        ELSE IF skip THEN <<None, 3>>
        ELSE <<trip1_name, 7>>

choose_trip_skip_last(current_point, prev_pt, trip1_name, trip2_name) ==
    choose_of_skip_last(prev_pt, trip1_name, trip2_name,
        get_nearest_distance(current_point, feed_shapes[trip1_name]),
        get_nearest_distance(current_point, feed_shapes[trip2_name]),
        /\ prev_pt # NoPoint
        /\ equirectangular_approx_distance(Rev(prev_pt), Rev(current_point))
              <= SkipThreshold * SkipThreshold,
        first_passed(prev_pt, current_point, feed_shapes[trip1_name]))

\* the branches of _choose_trip on the distances d1 and d2 to the two
\* shapes, the skip test and the result fp of _first_passed, each of them
\* read only on the branches where the code computes it
choose_of(prev_pt, trip1_name, trip2_name, d1, d2, skip, fp) ==
    LET nearer == IF d1 < d2 THEN trip1_name ELSE trip2_name
    IN  IF trip2_name # None /\ prev_pt = NoPoint THEN <<nearer, 1>>
        ELSE IF trip2_name # None /\ AbsDiffExceeds(d1, d2, TieThreshold)
             THEN <<nearer, 2>>
        ELSE IF trip2_name = None /\ prev_pt = NoPoint THEN <<trip1_name, 2>>
        ELSE IF skip THEN <<None, 3>>
        ELSE IF trip2_name # None
             THEN IF fp[2][1] <= 1 THEN <<trip1_name, 4>>
                  ELSE IF fp[2][2] <= 1 THEN <<trip2_name, 5>>
                  ELSE <<IF fp[1] = "A" THEN trip1_name ELSE trip2_name, 6>>
        ELSE <<trip1_name, 7>>

\* _choose_trip(...): <<chosen trip, method>>
choose_trip(current_point, prev_pt, trip1_name, trip2_name) ==
    choose_of(prev_pt, trip1_name, trip2_name,
        get_nearest_distance(current_point, feed_shapes[trip1_name]),
        get_nearest_distance(current_point, feed_shapes[trip2_name]),
        /\ prev_pt # NoPoint
        /\ equirectangular_approx_distance(Rev(prev_pt), Rev(current_point))
              <= SkipThreshold * SkipThreshold,
        first_passed(prev_pt, current_point, feed_shapes[trip1_name]))

\* Counter(queue_list).most_common(1)[0][0]: the most frequent value, the
\* one met first in the list among equally frequent ones
Count(s, v) == Cardinality({i \in 1..Len(s) : s[i] = v})

\* the most frequent value, the one met last among equally frequent ones
most_common_latest(s) ==
    LET count(i) == Count(s, s[i])
        first(i) == ListIndex(s, s[i])
    IN  s[CHOOSE i \in 1..Len(s) :
              \A j \in 1..Len(s) :
                  \/ count(i) > count(j)
                  \/ count(i) = count(j) /\ first(i) >= first(j)]

most_common(s) ==
    LET count(i) == Count(s, s[i])
        first(i) == ListIndex(s, s[i])
    IN  s[CHOOSE i \in 1..Len(s) :
              \A j \in 1..Len(s) :
                  \/ count(i) > count(j)
                  \/ count(i) = count(j) /\ first(i) <= first(j)]

\* a commit without the vote: the row's own choice, the queue evicting as
\* before
get_most_common_trip_unvoted(queue_list, default_trip, k) ==
    <<default_trip,
      IF Len(queue_list) = k THEN Tail(queue_list) ELSE queue_list>>

\* _get_most_common_trip(queueK, default_trip): <<trip, queue afterwards>>
get_most_common_trip(queue_list, default_trip, k) ==
    IF Len(queue_list) = 1 THEN <<default_trip, queue_list>>
    ELSE <<most_common(queue_list),
           IF Len(queue_list) = k THEN Tail(queue_list) ELSE queue_list>>

\* the same iteration with a skip branch that remembers the skipped fix
voter_update_skip_moves(st, current_point, k, ct) ==
    LET gm == get_most_common_trip(Append(st.queueK, ct[1]), ct[1], k)
    IN  IF st.blocked THEN st
        ELSE IF ct[2] # 3
        THEN IF Len(st.queueK) >= k
             THEN [st EXCEPT !.previous_point = current_point,
                             !.no_methods = Append(@, ct[2]),
                             !.blocked = TRUE]
             ELSE [st EXCEPT !.previous_point = current_point,
                             !.no_methods = Append(@, ct[2]),
                             !.queueK = gm[2],
                             !.results_trip = Append(@, gm[1])]
        ELSE [st EXCEPT !.previous_point = current_point,
                        !.no_methods = Append(@, ct[2]),
                        !.results_trip = Append(@, PyAt(@, -1))]

\* One iteration of the loop of _determine_trip_helper on the voter state
\* st = [previous_point, queueK, results_trip, no_methods, blocked], once
\* _choose_trip has returned ct = <<trip, method>>: queueK.put on a full
\* queue never returns.
voter_update(st, current_point, k, ct) ==
    LET gm == get_most_common_trip(Append(st.queueK, ct[1]), ct[1], k)
    IN  IF st.blocked THEN st
        ELSE IF ct[2] # 3
        THEN IF Len(st.queueK) >= k
             THEN [st EXCEPT !.previous_point = current_point,
                             !.no_methods = Append(@, ct[2]),
                             !.blocked = TRUE]
             ELSE [st EXCEPT !.previous_point = current_point,
                             !.no_methods = Append(@, ct[2]),
                             !.queueK = gm[2],
                             !.results_trip = Append(@, gm[1])]
        ELSE [st EXCEPT !.no_methods = Append(@, ct[2]),
                        !.results_trip = Append(@, PyAt(@, -1))]

\* One iteration of the loop of _determine_trip_helper
VoterStep(st, current_point, k, t1, t2) ==
    voter_update(st, current_point, k,
                 choose_trip(current_point, st.previous_point, t1, t2))

VoterInit == [previous_point |-> NoPoint, queueK |-> <<>>,
              results_trip |-> <<>>, no_methods |-> <<>>, blocked |-> FALSE]

\* _determine_trip_helper over the rows' points (longitude, latitude)
RECURSIVE VoterRun(_, _, _, _, _)
VoterRun(st, points, k, t1, t2) ==
    IF points = <<>> THEN st
    ELSE VoterRun(VoterStep(st, Head(points), k, t1, t2), Tail(points), k, t1, t2)

\* TripDeterminer.determine_trip(gps_data, route_name)
determine_trip_voter(points, route, k) ==
    VoterRun(VoterInit, points, k, trip1_name_of(route), trip2_name_of(route))

--------------------------------------------------------------------------
(* data_processor.py: preprocess_gps_data.  A frame is a sequence of rows, *)
(* a row a function from its column names to values.                       *)

\* df.drop([c], axis=1) on one row, and df[c] = v
DropCol(row, c) == [k \in (DOMAIN row) \ {c} |-> row[k]]
SetCol(row, c, v) == (c :> v) @@ row

\* df.columns: a row that lacks a column of its frame holds NaN there
Columns(df) == UNION {DOMAIN df[i] : i \in 1..Len(df)}

\* a raised exception, and a returned frame
Raised(name) == [ok |-> FALSE, error |-> name]
Returned(frame) == [ok |-> TRUE, df |-> frame]

\* pd.to_datetime of one value: a string in either format becomes the
\* Timestamp of its instant (minutes), a Timestamp stays what it is
to_datetime(v) == [kind |-> "Timestamp", minutes |-> v.minutes]

\* Timestamp.dayofweek and Timestamp.hour
dayofweek(t) == (t.minutes \div 1440) % 7
hour(t) == (t.minutes \div 60) % 24

\* df.sort_values(by='gpsdatetime'): rows of equal time keep their order
RECURSIVE sort_values(_)
sort_values(rows) ==
    IF rows = <<>> THEN <<>>
    ELSE LET t(i) == rows[i]["gpsdatetime"].minutes
             m == CHOOSE i \in 1..Len(rows) :
                      \A j \in 1..Len(rows) : t(i) < t(j) \/ (t(i) = t(j) /\ i <= j)
         IN  <<rows[m]>> \o sort_values(list_pop(rows, m - 1))

\* preprocess_gps_data(df): df.drop raises KeyError when there is no color
\* column; reset_index(drop=True) is the renumbering of the sequence
preprocess_gps_data(df) ==
    LET dropped == [i \in 1..Len(df) |-> DropCol(df[i], "color")]
        parsed == [i \in 1..Len(df) |->
                      SetCol(dropped[i], "gpsdatetime", to_datetime(dropped[i]["gpsdatetime"]))]
        timed == [i \in 1..Len(df) |->
                      SetCol(SetCol(parsed[i], "day", dayofweek(parsed[i]["gpsdatetime"])),
                             "hour", hour(parsed[i]["gpsdatetime"]))]
    IN  IF "color" \notin Columns(df)
        THEN Raised("KeyError")
        ELSE Returned(sort_values(timed))

\* the raw rows of one vehicle as the GPS API gives them
RawTimes ==
    { [kind |-> "str", format |-> "iso", minutes |-> 59],
      [kind |-> "str", format |-> "space", minutes |-> 59],
      [kind |-> "str", format |-> "iso", minutes |-> 61],
      [kind |-> "str", format |-> "iso", minutes |-> 1500] }

RawRow(time, lon) ==
    [bus_code |-> "B1", koridor |-> "4B", gpsdatetime |-> time, latitude |-> 0,
     longitude |-> lon, color |-> "red", gpsheading |-> 90, gpsspeed |-> 1,
     trip_id |-> None]

RawRows == {RawRow(time, lon) : time \in RawTimes, lon \in {10, 50}}

RawBatches == UNION {[1..n -> RawRows] : n \in 1..MaxBatch}

InitPre ==
    /\ raw_batch \in RawBatches
    /\ once = Raised("not called")
    /\ twice = Raised("not called")
    /\ prepc = "start"
    /\ b_table = <<>>
    /\ b_out = Raised("not called")
    /\ bpc = "idle"

\* gps = preprocess_gps_data(B)
PreFirst ==
    /\ prepc = "start"
    /\ once' = preprocess_gps_data(raw_batch)
    /\ prepc' = "once"
    /\ UNCHANGED <<raw_batch, twice, b_table, b_out, bpc>>
    /\ UNCHANGED <<voterVars, projVars, shapeVars, driverVars, tickVars>>

\* preprocess_gps_data(gps), on the frame the first call returned
PreSecond ==
    /\ prepc = "once"
    /\ once.ok
    /\ twice' = preprocess_gps_data(once.df)
    /\ prepc' = "twice"
    /\ UNCHANGED <<raw_batch, once, b_table, b_out, bpc>>
    /\ UNCHANGED <<voterVars, projVars, shapeVars, driverVars, tickVars>>

NextPreprocess == PreFirst \/ PreSecond

--------------------------------------------------------------------------
(* eta_predictor.py                                                        *)

NoRow == [none |-> TRUE]

\* _get_stops(trip_map): <<id, index in the shape>> of every stop
get_stops(tm) ==
    LET F[n \in 0..Len(tm.status)] ==
            IF n = 0 THEN <<>>
            ELSE IF tm.status[n] # "." THEN Append(F[n - 1], <<tm.status[n], n - 1>>)
                 ELSE F[n - 1]
    IN  F[Len(tm.status)]

\* _get_start_index(stops, next_stop, iteration)
get_start_index(stops, next_stop, iteration) ==
    IF iteration = 0
    THEN ListIndex([i \in 1..Len(stops) |-> stops[i][1]], next_stop)
    ELSE 1

\* _create_temp_row without its test against last_stop
create_temp_row_no_halt(real, stops, index, trip, last_stop) ==
    LET idx_cur_in_shape == PyAt(stops, index - 1)[2]
        cur_stop == PyAt(stops, index - 1)[1]
        next_stop == PyAt(stops, index)[1]
    IN  [real EXCEPT !.prev_stop = cur_stop,
                     !.next_stop = next_stop,
                     !.latitude = PyAt(map_shape[trip], idx_cur_in_shape)[1],
                     !.longitude = PyAt(map_shape[trip], idx_cur_in_shape)[2],
                     !.next_stop_dist = trip_map[trip].jarak[cur_stop]]

\* _create_temp_row(real, stops, index, trip, last_stop)
create_temp_row(real, stops, index, trip, last_stop) ==
    LET idx_cur_in_shape == PyAt(stops, index - 1)[2]
        cur_stop == PyAt(stops, index - 1)[1]
        next_stop == PyAt(stops, index)[1]
    IN  IF next_stop = last_stop THEN NoRow
        ELSE [real EXCEPT !.prev_stop = cur_stop,
                          !.next_stop = next_stop,
                          !.latitude = PyAt(map_shape[trip], idx_cur_in_shape)[1],
                          !.longitude = PyAt(map_shape[trip], idx_cur_in_shape)[2],
                          !.next_stop_dist = trip_map[trip].jarak[cur_stop]]

\* _update_trip(trip): the paired trip, or None (False)
update_trip(trip) == trip_map[trip].pair

\* one pass of for i in range(idx, n_stop): ... of _generate_modified_rows,
\* temp being the row _create_temp_row returns for i
RECURSIVE GenInner(_, _, _, _, _, _)
gen_append(real, j, trip, i, rows, last_stop, stops, temp) ==
    IF j = 0 /\ i = 0
    THEN GenInner(real, j, trip, i + 1, Append(rows, real), last_stop)
    ELSE IF temp = NoRow
         THEN [rows |-> rows, halted |-> TRUE, error |-> FALSE,
               halt_stop |-> PyAt(stops, i)[1]]
    ELSE GenInner(real, j, trip, i + 1, Append(rows, temp), last_stop)

\* for i in range(idx, n_stop): ... of _generate_modified_rows
GenInner(real, j, trip, i, rows, last_stop) ==
    IF i >= Len(get_stops(trip_map[trip]))
    THEN [rows |-> rows, halted |-> FALSE, error |-> FALSE]
    ELSE gen_append(real, j, trip, i, rows, last_stop, get_stops(trip_map[trip]),
             create_temp_row(real, get_stops(trip_map[trip]), i, trip, last_stop))

\* the end of one pass of for j in range(3): ..., r being what the inner
\* loop left: halt, stop at an unpaired trip, or go on with the paired trip
RECURSIVE GenOuter(_, _, _, _, _)
gen_next_trip(real, j, trip, last_stop, r) ==
    IF r.halted THEN r
    ELSE IF update_trip(trip) = None THEN r
    ELSE GenOuter(real, j + 1, update_trip(trip), r.rows, last_stop)

\* for j in range(3): ... of _generate_modified_rows
GenOuter(real, j, trip, rows, last_stop) ==
    LET idx == get_start_index(get_stops(trip_map[trip]), real.next_stop, j)
    IN  IF j >= 3 THEN [rows |-> rows, halted |-> FALSE, error |-> FALSE]
        ELSE IF idx < 0 THEN [rows |-> rows, halted |-> FALSE, error |-> TRUE]
        ELSE gen_next_trip(real, j, trip, last_stop,
                           GenInner(real, j, trip, idx, rows, last_stop))

\* _generate_modified_rows(gps, row, last_stop)
generate_modified_rows(row, last_stop) ==
    GenOuter(row, 0, row.trip_id, <<>>, last_stop)

\* self.model.predict(to_predict) for one row: the regression model is a
\* pickled artifact; a fixed function of the row's features stands for it
model_predict(row) == 1 + (row.next_stop_dist \div 10) + row.gpsspeed

\* _accumulate_predictions(pred, next_stops, preds); preds is a function
\* whose domain is the dict's keys
RECURSIVE Accumulate(_, _, _, _)
Accumulate(rows, i, sum, acc) ==
    IF i > Len(rows) THEN acc
    ELSE LET stop == rows[i].next_stop
             acc1 == IF stop \in DOMAIN acc THEN acc ELSE (stop :> <<>>) @@ acc
             sum1 == sum + model_predict(rows[i])
         IN  Accumulate(rows, i + 1, sum1, [acc1 EXCEPT ![stop] = Append(@, sum1)])

accumulate_predictions(rows, acc) == Accumulate(rows, 1, 0, acc)

\* sorted(a)
RECURSIVE sorted(_)
sorted(a) ==
    IF a = <<>> THEN <<>>
    ELSE LET m == CHOOSE i \in 1..Len(a) : \A j \in 1..Len(a) : a[i] <= a[j]
         IN  <<a[m]>> \o sorted([k \in 1..(Len(a) - 1) |-> IF k < m THEN a[k] ELSE a[k + 1]])

\* 4 * np.percentile(a, 25), linear interpolation between the order statistics
percentile25_x4(a) ==
    LET srt == sorted(a)
        k == (Len(a) - 1) \div 4
        r == (Len(a) - 1) % 4
    IN  IF r = 0 THEN 4 * srt[k + 1]
        ELSE 4 * srt[k + 1] + r * (srt[k + 2] - srt[k + 1])

\* _finalize_predictions(preds, n)
finalize_predictions(acc, n) ==
    LET to_pop == {key \in DOMAIN acc : Len(acc[key]) # n}
    IN  [key \in (DOMAIN acc) \ to_pop |-> percentile25_x4(acc[key])]

\* the columns _prepare_for_prediction drops, and the columns whose values
\* pd.to_numeric cannot parse: the colour name and the "05:00:00" that
\* poll_api writes into start_time_
DroppedColumns ==
    {"bus_code", "gpsdatetime", "is_new", "distance_route", "following_route",
     "trip_shape", "next_stop", "prev_stop", "next_stop_seq", "prev_stop_seq",
     "trip_id"}
NonNumericColumns == {"color", "start_time_"}

\* _prepare_for_prediction(to_predict) without the conversion to numbers
prepare_for_prediction_lenient(rows) ==
    IF ~(DroppedColumns \subseteq Columns(rows))
    THEN Raised("KeyError")
    ELSE Returned([i \in 1..Len(rows) |->
             [k \in (DOMAIN rows[i]) \ DroppedColumns |-> rows[i][k]]])

\* _prepare_for_prediction(to_predict): drop raises KeyError on a missing
\* column, apply(pd.to_numeric) raises ValueError on a column it cannot parse
prepare_for_prediction(rows) ==
    IF ~(DroppedColumns \subseteq Columns(rows))
    THEN Raised("KeyError")
    ELSE IF Columns(rows) \cap NonNumericColumns # {}
    THEN Raised("ValueError")
    ELSE Returned([i \in 1..Len(rows) |->
             [k \in (DOMAIN rows[i]) \ DroppedColumns |-> rows[i][k]]])

\* _process_row_async once modified_rows is gen: the accumulator afterwards
predict_rows(gen, acc) ==
    IF gen.error \/ gen.rows = <<>> \/ ~prepare_for_prediction(gen.rows).ok
    THEN [ok |-> FALSE, preds |-> acc]
    ELSE [ok |-> TRUE, preds |-> accumulate_predictions(gen.rows, acc)]

\* the body of _process_row_async for one fix: the accumulator afterwards
process_row(row, last_stop, acc) ==
    predict_rows(generate_modified_rows(row, last_stop), acc)

\* the tasks of predict_eta_async from row i on, r being what the tasks
\* before it left, and the return of predict_eta_async after the last
RECURSIVE ProcessRows(_, _, _, _)
ProcessRows(df, i, last_stop, r) ==
    IF ~r.ok THEN [ok |-> FALSE]
    ELSE IF i > Len(df)
    THEN [ok |-> TRUE, result |-> finalize_predictions(r.preds, Len(df))]
    ELSE ProcessRows(df, i + 1, last_stop, process_row(df[i], last_stop, r.preds))

\* predict_eta_async(gps): every task accumulates into the one preds dict,
\* and preds[0] is that dict
predict_eta_async(df) ==
    IF df = <<>> THEN [ok |-> FALSE]
    ELSE ProcessRows(df, 1, df[1]["prev_stop"], [ok |-> TRUE, preds |-> <<>>])

\* preds[0] if every task had accumulated into a dict of its own: what the
\* first task returned, as it was then
gathered_first_copy(first, shared) == first

\* preds[0] after asyncio.gather: every task returns the dict it was given,
\* so the first element is the one dict all tasks wrote into, as it is when
\* the last task has returned
gathered_first(first, shared) == shared

\* the loop of predict_eta from row i on, r being what the rows before it
\* left in preds, and its return after the last
RECURSIVE PredictEtaLoop(_, _, _, _)
PredictEtaLoop(df, i, last_stop, r) ==
    IF ~r.ok THEN [ok |-> FALSE]
    ELSE IF i > Len(df)
    THEN [ok |-> TRUE, result |-> finalize_predictions(r.preds, Len(df))]
    ELSE PredictEtaLoop(df, i + 1, last_stop, process_row(df[i], last_stop, r.preds))

\* predict_eta(gps), the synchronous path
predict_eta(df) ==
    IF df = <<>> THEN [ok |-> FALSE]
    ELSE PredictEtaLoop(df, 1, df[1]["prev_stop"], [ok |-> TRUE, preds |-> <<>>])

--------------------------------------------------------------------------
(* route_analyzer.py: next_stop_distance                                   *)

\* cKDTree(points).query(p, 2)[1] after idx.sort(): the smaller of the
\* indices, from 0, of the two nearest vertices
kdtree_query2_first(points, p) ==
    LET d == [i \in 1..Len(points) |-> PlaneDistSq(p, points[i])]
        first == ArgMin(d)
        second == ArgMin([i \in (1..Len(points)) \ {first} |-> d[i]])
    IN  Min2(first, second) - 1

\* _insert_point_to_shape(coord, shape, l, r); -1 stands for the error
\* LineString raises on a segment of fewer than two points
insert_point_to_shape(coord, shape, l, r) ==
    LET segment == PySlice(shape, l, r)
    IN  IF Len(segment) < 2 THEN -1
        ELSE l + kdtree_query2_first(segment, nearest_points(segment, coord)) + 1

\* the loop "for i in range(insert_index + 1, end_index + 2)", in metres
RECURSIVE SumLegs(_, _, _)
SumLegs(shape, i, last) ==
    IF i > last THEN 0
    ELSE ISqrt(equirectangular_approx_distance(PyAt(shape, i - 1), PyAt(shape, i)))
             + SumLegs(shape, i + 1, last)

\* the anchors (lat, lon) next_stop_distance is called with
AnchorCoords ==
    { <<0, 10>>, <<0, 50>>, <<5, 50>>, <<0, 70>>, <<30, 60>>, <<20, 40>>,
      <<10, 20>>, <<10, 0>>, <<50, 10>>, <<50, 40>>, <<60, 30>>, <<55, 0>> }

StopsOfTrip(trip) == {trip_map[trip].status[i] : i \in 1..Len(trip_map[trip].status)} \ {"."}

\* next_stop_distance up to shape.insert(insert_index, (lat, lon))
NsdCall(trip_id, prev_stop_id, next_stop_id, coord) ==
    /\ npc = "idle"
    /\ n_calls < MaxCalls
    /\ \E start_index \in {ListIndex(trip_map[trip_id].status, prev_stop_id)} :
       \E end_index \in {ListIndex(trip_map[trip_id].status, next_stop_id)} :
       \E at \in {IF start_index < 0 \/ end_index < 0 THEN -1
                  ELSE insert_point_to_shape(coord, map_shape[trip_id],
                                             start_index, end_index)} :
           /\ n_args' = [trip_id |-> trip_id, end_index |-> end_index, coord |-> coord]
           /\ shape_before' = map_shape
           /\ n_calls' = n_calls + 1
           /\ IF at < 0
              THEN /\ npc' = "raised"
                   /\ UNCHANGED <<map_shape, insert_index>>
              ELSE /\ npc' = "inserted"
                   /\ insert_index' = at
                   /\ map_shape' = [map_shape EXCEPT
                                        ![trip_id] = list_insert(@, at, coord)]
    /\ UNCHANGED <<total_distance, threads>>
    /\ UNCHANGED <<voterVars, projVars, preVars, driverVars, tickVars>>

\* the rest of next_stop_distance: the sum, shape.pop(insert_index), return
NsdReturn ==
    /\ npc = "inserted"
    /\ total_distance' = SumLegs(map_shape[n_args.trip_id], insert_index + 1,
                                 n_args.end_index + 1)
    /\ map_shape' = [map_shape EXCEPT ![n_args.trip_id] = list_pop(@, insert_index)]
    /\ npc' = "returned"
    /\ UNCHANGED <<n_args, insert_index, shape_before, n_calls, threads>>
    /\ UNCHANGED <<voterVars, projVars, preVars, driverVars, tickVars>>

\* the caller goes on to its next row; the locals of the call are gone
NsdNextRow ==
    /\ npc \in {"returned", "raised"}
    /\ npc' = "idle"
    /\ n_args' = [trip_id |-> "4B-R01", end_index |-> 0, coord |-> <<0, 0>>]
    /\ insert_index' = 0
    /\ total_distance' = 0
    /\ UNCHANGED <<map_shape, shape_before, n_calls, threads>>
    /\ UNCHANGED <<voterVars, projVars, preVars, driverVars, tickVars>>

NextNsd ==
    \/ \E trip \in TripIds : \E prev \in StopsOfTrip(trip) :
         \E next \in StopsOfTrip(trip) \cup {"zz"} : \E coord \in AnchorCoords :
           NsdCall(trip, prev, next, coord)
    \/ NsdReturn
    \/ NsdNextRow

PristineShapes == [t \in TripIds |-> trip_map[t].shape]

InitShape ==
    /\ map_shape = PristineShapes
    /\ npc = "idle"
    /\ n_args = [trip_id |-> "4B-R01", end_index |-> 0, coord |-> <<0, 0>>]
    /\ insert_index = 0
    /\ total_distance = 0
    /\ shape_before = PristineShapes
    /\ n_calls = 0

--------------------------------------------------------------------------
(* route_analyzer.py: next_stop_distance run by two tasks on OS threads.   *)
(* The steps of a task are the statements of next_stop_distance; between   *)
(* any two of them the other task may run.                                 *)

Threads == {1, 2}

\* the locals of a task that is not inside next_stop_distance
NoCall == [pc |-> "idle", trip_id |-> "4B-R01", start_index |-> 0, end_index |-> 0,
           coord |-> <<0, 0>>, insert_index |-> 0, i |-> 0, total_distance |-> 0]

\* the locals of a task that enters next_stop_distance
Entered(trip_id, prev_stop_id, next_stop_id, coord) ==
    [pc |-> "find", trip_id |-> trip_id,
     start_index |-> ListIndex(trip_map[trip_id].status, prev_stop_id),
     end_index |-> ListIndex(trip_map[trip_id].status, next_stop_id),
     coord |-> coord, insert_index |-> 0, i |-> 0, total_distance |-> 0]

\* the stop pairs and anchors the two tasks are called with
ThreadCalls(trip_id) ==
    LET stops == get_stops(trip_map[trip_id])
    IN  {Entered(trip_id, stops[k][1], stops[k + 1][1], coord) :
            k \in 1..(Len(stops) - 1),
            coord \in {c \in AnchorCoords : c[1] <= 10}}

IdleThreads == threads = [t \in Threads |-> NoCall]

InitThreads ==
    \E trip_id \in {"4B-R01", "4B-R02"} :
        threads \in [Threads -> ThreadCalls(trip_id)]

\* insert_index = self._insert_point_to_shape((lat, lon), shape, l, r)
ThFind(t) ==
    /\ threads[t].pc = "find"
    /\ \E at \in {insert_point_to_shape(threads[t].coord, map_shape[threads[t].trip_id],
                                         threads[t].start_index, threads[t].end_index)} :
           threads' = [threads EXCEPT ![t].insert_index = at,
                                      ![t].pc = IF at < 0 THEN "raised" ELSE "insert"]
    /\ UNCHANGED <<map_shape, npc, n_args, insert_index, total_distance,
                   shape_before, n_calls>>
    /\ UNCHANGED <<voterVars, projVars, preVars, driverVars, tickVars>>

\* shape.insert(insert_index, (lat, lon)); total_distance = 0
ThInsert(t) ==
    /\ threads[t].pc = "insert"
    /\ map_shape' = [map_shape EXCEPT ![threads[t].trip_id] =
                         list_insert(@, Min2(threads[t].insert_index, Len(@)),
                                     threads[t].coord)]
    /\ threads' = [threads EXCEPT ![t].pc = "sum",
                                  ![t].i = threads[t].insert_index + 1,
                                  ![t].total_distance = 0]
    /\ UNCHANGED <<npc, n_args, insert_index, total_distance, shape_before, n_calls>>
    /\ UNCHANGED <<voterVars, projVars, preVars, driverVars, tickVars>>

\* one pass of for i in range(insert_index + 1, end_index + 2): an index
\* beyond the list raises IndexError
ThLeg(t) ==
    /\ threads[t].pc = "sum"
    /\ threads[t].i <= threads[t].end_index + 1
    /\ \E shape \in {map_shape[threads[t].trip_id]} :
           IF threads[t].i >= Len(shape)
           THEN threads' = [threads EXCEPT ![t].pc = "raised"]
           ELSE threads' = [threads EXCEPT
                    ![t].total_distance = @ + ISqrt(equirectangular_approx_distance(
                                                  PyAt(shape, threads[t].i - 1),
                                                  PyAt(shape, threads[t].i))),
                    ![t].i = @ + 1]
    /\ UNCHANGED <<map_shape, npc, n_args, insert_index, total_distance,
                   shape_before, n_calls>>
    /\ UNCHANGED <<voterVars, projVars, preVars, driverVars, tickVars>>

\* shape.pop(insert_index); return total_distance
ThPop(t) ==
    /\ threads[t].pc = "sum"
    /\ threads[t].i > threads[t].end_index + 1
    /\ map_shape' = [map_shape EXCEPT ![threads[t].trip_id] =
                         list_pop(@, threads[t].insert_index)]
    /\ threads' = [threads EXCEPT ![t].pc = "done"]
    /\ UNCHANGED <<npc, n_args, insert_index, total_distance, shape_before, n_calls>>
    /\ UNCHANGED <<voterVars, projVars, preVars, driverVars, tickVars>>

NextThreads ==
    \E t \in Threads : ThFind(t) \/ ThInsert(t) \/ ThLeg(t) \/ ThPop(t)

--------------------------------------------------------------------------
(* bus_eta_application.py: the stages of process_bus_async                 *)

\* next_prev_df.pickle: one row per shape vertex of each trip, with the
\* stops before and after it and their sequence numbers
next_prev ==
    [ t \in TripIds |->
        LET stops == get_stops(trip_map[t])
            n == Len(stops)
            \* the position in stops of the last stop at or before vertex v
            at(v) == CHOOSE k \in 1..n :
                         /\ stops[k][2] <= v
                         /\ \A m \in 1..n : stops[m][2] <= v => m <= k
            prev(v) == Min2(at(v), n - 1)
        IN  [ i \in 1..Len(trip_map[t].shape) |->
                [trip_id |-> t,
                 shape_pt_lat |-> trip_map[t].shape[i][1],
                 shape_pt_lon |-> trip_map[t].shape[i][2],
                 prev_stop |-> stops[prev(i - 1)][1],
                 next_stop |-> stops[prev(i - 1) + 1][1],
                 prev_stop_seq |-> prev(i - 1) - 1,
                 next_stop_seq |-> prev(i - 1)] ] ]

\* categorized_stop_mean.pickle: the mean ETA per stop sequence number
stop_mean_eta == [seq \in 0..3 |-> CASE seq = 0 -> 0 [] seq = 1 -> 20
                                     [] seq = 2 -> 50 [] OTHER -> 70]

RouteThresh == 100

\* the points of all shapes of a corridor, one after the other
RECURSIVE ConcatShapes(_)
ConcatShapes(ids) ==
    IF ids = <<>> THEN <<>> ELSE feed_shapes[Head(ids)] \o ConcatShapes(Tail(ids))

\* calculate_distance_to_routes for one row: the squared distance in metres
\* from the fix to the line through all the shape points of its corridor
distance_to_line(row) ==
    get_nearest_distance(<<row["longitude"], row["latitude"]>>,
                         ConcatShapes(ShapeIdsOf(row["koridor"])))

\* df['following_route'] = df['distance_route'] <= thresh, for one row
following_route(row) ==
    SetCol(row, "following_route",
           row["distance_route"] <= RouteThresh * RouteThresh)

\* determine_following_route(df): LineString raises on a corridor that has
\* no shape
determine_following_route(df) ==
    IF \E i \in 1..Len(df) : df[i]["koridor"] \notin FeedRoutes
    THEN Raised("ValueError")
    ELSE Returned([i \in 1..Len(df) |->
             following_route(SetCol(df[i], "distance_route",
                                    distance_to_line(df[i])))])

\* self.map_trip_id
map_trip_id ==
    [ t \in {"4.B001", "4.B011", "9H.R04", "9H.L03"} |->
        CASE t = "4.B001" -> "4B-R01_shp" [] t = "4.B011" -> "4B-R02_shp"
          [] t = "9H.R04" -> "9H-R04_shp" [] OTHER -> "9H-R05_shp" ]

\* the column trip_shape of determine_trip(df): from the voter's state
\* voted on a first trip_id that is no key of map_trip_id, from the map
\* otherwise
set_trip_shape(df, voted) ==
    IF df[1]["trip_id"] \notin DOMAIN map_trip_id
    THEN IF voted.blocked THEN Raised("blocked")
         ELSE Returned([i \in 1..Len(df) |->
                  SetCol(df[i], "trip_shape", voted.results_trip[i])])
    ELSE IF \E i \in 1..Len(df) : df[i]["trip_id"] \notin DOMAIN map_trip_id
         THEN Raised("KeyError")
         ELSE Returned([i \in 1..Len(df) |->
                  SetCol(df[i], "trip_shape", map_trip_id[df[i]["trip_id"]])])

\* BusETAApplication.determine_trip(df)
determine_trip(df) ==
    set_trip_shape(df,
        determine_trip_voter(
            [i \in 1..Len(df) |-> <<df[i]["longitude"], df[i]["latitude"]>>],
            df[1]["koridor"], KDefault))

\* test_create_naive_next_prev for one row: the next_prev row of the trip
\* nearest to the fix
naive_next_prev(row, table) ==
    table[kdtree_query([i \in 1..Len(table) |->
                           <<table[i].shape_pt_lat, table[i].shape_pt_lon>>],
                       <<row["latitude"], row["longitude"]>>) + 1]

\* the columns calculate_prev_next_stops gives a row of trip trip whose
\* nearest next_prev row is np
set_prev_next(row, trip, np) ==
    [k \in (DOMAIN row) \cup {"trip_id", "next_stop", "prev_stop",
                              "next_stop_seq", "prev_stop_seq"} |->
        CASE k = "trip_id" -> trip
          [] k = "next_stop" -> np.next_stop
          [] k = "prev_stop" -> np.prev_stop
          [] k = "next_stop_seq" -> np.next_stop_seq
          [] k = "prev_stop_seq" -> np.prev_stop_seq
          [] OTHER -> row[k]]

\* calculate_prev_next_stops(df)
calculate_prev_next_stops(df) ==
    [i \in 1..Len(df) |->
        set_prev_next(df[i], TripOfShape(df[i]["trip_shape"]),
            naive_next_prev(df[i], next_prev[TripOfShape(df[i]["trip_shape"])]))]

\* next_stop_distance(trip_id, prev_stop_id, next_stop_id, lat, lon) on the
\* shape lists: the distance in metres and the lists afterwards
\* next_stop_distance from insert_index = at on: insert, sum, pop; a
\* negative at stands for the error raised before
distance_from(shapes, trip_id, end_index, coord, at) ==
    LET inserted == list_insert(shapes[trip_id], at, coord)
    IN  IF at < 0
        THEN [ok |-> FALSE, shapes |-> shapes]
        ELSE [ok |-> TRUE,
              dist |-> SumLegs(inserted, at + 1, end_index + 1),
              shapes |-> [shapes EXCEPT ![trip_id] = list_pop(inserted, at)]]

\* next_stop_distance(trip_id, prev_stop_id, next_stop_id, lat, lon) on the
\* shape lists: the distance in metres and the lists afterwards
next_stop_distance(shapes, trip_id, prev_stop_id, next_stop_id, coord) ==
    LET start_index == ListIndex(trip_map[trip_id].status, prev_stop_id)
        end_index == ListIndex(trip_map[trip_id].status, next_stop_id)
    IN  distance_from(shapes, trip_id, end_index, coord,
            IF start_index < 0 \/ end_index < 0 THEN -1
            ELSE insert_point_to_shape(coord, shapes[trip_id],
                                       start_index, end_index))

\* the column next_stop_dist of row i, r being what next_stop_distance
\* returned for it, and the rows after it
RECURSIVE NextStopDistances(_, _, _, _)
set_next_stop_dist(df, i, done, r) ==
    IF ~r.ok THEN [ok |-> FALSE, shapes |-> r.shapes]
    ELSE NextStopDistances(df, i + 1, r.shapes,
             Append(done, SetCol(df[i], "next_stop_dist", r.dist)))

\* calculate_next_stop_distance(df): row by row on the shared shape lists
NextStopDistances(df, i, shapes, done) ==
    IF i > Len(df) THEN [ok |-> TRUE, df |-> done, shapes |-> shapes]
    ELSE set_next_stop_dist(df, i, done,
             next_stop_distance(shapes, df[i]["trip_id"], df[i]["prev_stop"],
                                df[i]["next_stop"],
                                <<df[i]["latitude"], df[i]["longitude"]>>))

calculate_next_stop_distance(df, shapes) == NextStopDistances(df, 1, shapes, <<>>)

NumBins == 8

\* pd.cut(eta, bins=np.linspace(0, max, num_bins), labels=1..num_bins-1):
\* the label k of the bin ((k-1) * max / (num_bins-1), k * max / (num_bins-1)]
\* that holds the ETA, 0 standing for the NaN of an ETA in no bin
cut_label(eta, max, num_bins) ==
    LET fits(k) == (k - 1) * max < eta * (num_bins - 1) /\ eta * (num_bins - 1) <= k * max
    IN  IF \E k \in 1..(num_bins - 1) : fits(k)
        THEN CHOOSE k \in 1..(num_bins - 1) : fits(k)
        ELSE 0

\* self.stop_mean_eta["eta"].max()
eta_max(table) ==
    table[CHOOSE m \in DOMAIN table : \A o \in DOMAIN table : table[o] <= table[m]]

\* categorize_stop(df, num_bins) for one sequence number
categorized_stop(seq, num_bins) ==
    cut_label(stop_mean_eta[seq], eta_max(stop_mean_eta), num_bins)

\* the categorized_stop column categorize_stop writes into a stop_mean_eta
\* table; pd.cut raises ValueError when the edges are not distinct
categorize_table(table, num_bins) ==
    IF eta_max(table) = 0 THEN Raised("ValueError")
    ELSE Returned([seq \in DOMAIN table |->
                      cut_label(table[seq], eta_max(table), num_bins)])

\* categorize_stop(df, num_bins): KeyError on an unknown sequence number
categorize_stop(df, num_bins) ==
    IF \E i \in 1..Len(df) : df[i]["next_stop_seq"] \notin DOMAIN stop_mean_eta
    THEN Raised("KeyError")
    ELSE Returned([i \in 1..Len(df) |->
             SetCol(df[i], "categorized_stop",
                    categorized_stop(df[i]["next_stop_seq"], num_bins))])

\* the mean ETAs of the tables categorize_stop is applied to
MeanEtas == {0, 10, 35, 70}

\* the stop sequence numbers of those tables
TableSeqs == 0..2

InitBins ==
    /\ raw_batch = <<>>
    /\ once = Raised("not called")
    /\ twice = Raised("not called")
    /\ prepc = "idle"
    /\ b_table \in [TableSeqs -> MeanEtas]
    /\ b_out = Raised("not called")
    /\ bpc = "start"

\* the two statements of categorize_stop that build the column
CategorizeTable ==
    /\ bpc = "start"
    /\ b_out' = categorize_table(b_table, NumBins)
    /\ bpc' = "done"
    /\ UNCHANGED <<raw_batch, once, twice, prepc, b_table>>
    /\ UNCHANGED <<voterVars, projVars, shapeVars, driverVars, tickVars>>

NextBins == CategorizeTable

--------------------------------------------------------------------------
(* bus_eta_application.py: process_bus_async and predict_async             *)

\* a per-vehicle result: None, or the dict of the ETA of each stop
NullResult == [null |-> TRUE, stops |-> <<>>]
StopsResult(etas) == [null |-> FALSE, stops |-> etas]

\* gps[gps['is_new'] == 1]
IsNew(row) == "is_new" \in DOMAIN row /\ row["is_new"] = TRUE

\* gps['following_route'].iloc[0]
first_following_route(df) == PyAt(df, 0)["following_route"]

\* gps['following_route'].iloc[-1]
last_following_route(df) == PyAt(df, -1)["following_route"]

\* What the body of the try of process_bus_async leaves on the shared shape
\* lists: the result, whether a stage raised, whether the adherence check
\* returned None, the shape lists afterwards, the column trip_shape that
\* determine_trip gave the window and whether it asked the voter for it.
\* A stage that raises:
task_raised(shapes) ==
    [result |-> NullResult, raised |-> TRUE, caught |-> FALSE,
     off_route |-> FALSE, shapes |-> shapes, trips |-> <<>>, voted |-> FALSE]

\* return eta, eta being what predict_eta_async left
from_predicted(eta, shapes) ==
    IF ~eta.ok THEN task_raised(shapes)
    ELSE [result |-> StopsResult(eta.result), raised |-> FALSE, caught |-> FALSE,
          off_route |-> FALSE, shapes |-> shapes, trips |-> <<>>, voted |-> FALSE]

\* eta = self.eta_predictor.predict_eta_async(gps)
from_categorized(cat, shapes) ==
    IF ~cat.ok THEN task_raised(shapes)
    ELSE from_predicted(predict_eta_async(cat.df), shapes)

\* gps = self.data_preprocessor.categorize_stop(gps, num_bins=8)
from_distance(nsd) ==
    IF ~nsd.ok THEN task_raised(nsd.shapes)
    ELSE from_categorized(categorize_stop(nsd.df, NumBins), nsd.shapes)

\* gps = calculate_prev_next_stops(gps); calculate_next_stop_distance(gps)
from_trip(trp, shapes) ==
    IF ~trp.ok THEN task_raised(shapes)
    ELSE from_distance(calculate_next_stop_distance(
                           calculate_prev_next_stops(trp.df), shapes))

\* gps = self.determine_trip(gps) on the window df, trp being what it
\* returned: the stages after it, with the column trip_shape it set and
\* whether its first branch, the voter, was taken
trip_resolved(df, trp, shapes) ==
    [from_trip(trp, shapes) EXCEPT
        !.trips = IF trp.ok THEN [i \in 1..Len(df) |-> trp.df[i]["trip_shape"]]
                  ELSE <<>>,
        !.voted = df[1]["trip_id"] \notin DOMAIN map_trip_id]

\* if not gps['following_route'].iloc[-1]: return None; determine_trip(gps)
from_following(fol, shapes) ==
    IF ~fol.ok THEN task_raised(shapes)
    ELSE IF ~last_following_route(fol.df)
         THEN [result |-> NullResult, raised |-> FALSE, caught |-> FALSE,
               off_route |-> TRUE, shapes |-> shapes, trips |-> <<>>,
               voted |-> FALSE]
    ELSE trip_resolved(fol.df, determine_trip(fol.df), shapes)

\* gps = gps[gps['is_new'] == 1]; determine_following_route(gps): iloc[-1]
\* raises on a frame without rows
from_preprocessed(pre, shapes) ==
    IF ~pre.ok THEN task_raised(shapes)
    ELSE IF SelectSeq(pre.df, IsNew) = <<>> THEN task_raised(shapes)
    ELSE from_following(determine_following_route(SelectSeq(pre.df, IsNew)), shapes)

\* the body of the try of process_bus_async
process_bus_stages(bus, df, shapes) ==
    from_preprocessed(preprocess_gps_data(df), shapes)

\* process_bus_async without its except clause
process_bus_async_no_except(bus, df, shapes) == process_bus_stages(bus, df, shapes)

\* except Exception as e: print(...); return None
except_Exception(r) == [r EXCEPT !.caught = r.raised]

\* process_bus_async(bus, gps): "except Exception" turns a raise into None
process_bus_async(bus, df, shapes) ==
    except_Exception(process_bus_stages(bus, df, shapes))

\* df['bus_code'].unique(): the codes in the order of their first rows
RECURSIVE UniqueFrom(_, _, _)
UniqueFrom(df, i, seen) ==
    IF i > Len(df) THEN seen
    ELSE UniqueFrom(df, i + 1,
             IF \E m \in 1..Len(seen) : seen[m] = df[i]["bus_code"]
             THEN seen ELSE Append(seen, df[i]["bus_code"]))

unique_buses(df) == UniqueFrom(df, 1, <<>>)

\* df[df['bus_code'] == bus]
RowsOfBus(df, bus) == SelectSeq(df, LAMBDA row : row["bus_code"] = bus)

\* {bus: result for bus, result in zip(df['bus_code'].unique(), results)}
zip_results(buses, results) ==
    [bus \in {buses[i] : i \in 1..Min2(Len(buses), Len(results))} |->
        results[CHOOSE i \in 1..Len(buses) : buses[i] = bus]]

\* task i has ended with r: a raise that left the task ends the gather,
\* anything else is the task's result
RECURSIVE GatherTasks(_, _, _, _)
gather_result(df, i, results, r) ==
    IF r.raised /\ ~r.caught THEN [ok |-> FALSE]
    ELSE GatherTasks(df, i + 1, r.shapes, Append(results, r))

\* what the tasks returned, in the order of the tasks
task_results(results) == [k \in 1..Len(results) |-> results[k].result]

\* the tasks of predict_async one after the other, from task i on, and its
\* return after the last: the dict of the results, and with it what each
\* task left
GatherTasks(df, i, shapes, results) ==
    IF i > Len(unique_buses(df))
    THEN [ok |-> TRUE,
          prediction |-> zip_results(unique_buses(df), task_results(results)),
          tasks |-> zip_results(unique_buses(df), results)]
    ELSE gather_result(df, i, results,
             process_bus_async(unique_buses(df)[i],
                               RowsOfBus(df, unique_buses(df)[i]), shapes))

\* predict_async(df), run on shape lists as the schedule data gives them
predict_async(df, shapes) == GatherTasks(df, 1, shapes, <<>>)

\* main.py, append_history: a history of fewer rows is not appended
MinHistory == 10

\* utils.map_gps_trip(trip_id)
map_gps_trip(trip_id) ==
    CASE trip_id = "4.B001" -> "4B-R01"
      [] trip_id = "4.B011" -> "4B-R02"
      [] trip_id = "9H.L03" -> "9H"
      [] trip_id = "D21.003" -> "D21"
      [] OTHER -> None

\* the rows a batch is made of: a fix at a time, on or off its corridor
BatchRow(bus, koridor, minutes, lat, lon) ==
    [bus_code |-> bus, koridor |-> koridor,
     gpsdatetime |-> [kind |-> "str", format |-> "iso", minutes |-> minutes],
     latitude |-> lat, longitude |-> lon, color |-> "red", gpsheading |-> 90,
     gpsspeed |-> 1, trip_id |-> None]

NewRow(row) == SetCol(row, "is_new", TRUE)

Buses == {"B1", "B2"}
KoridorOf(bus) == IF bus = "B1" THEN "4B" ELSE "9H"
OnRoute(bus, minutes) ==
    IF bus = "B1" THEN BatchRow(bus, "4B", minutes, 0, 50)
    ELSE BatchRow(bus, "9H", minutes, 50, 10)
OffRoute(bus, minutes) ==
    IF bus = "B1" THEN BatchRow(bus, "4B", minutes, 140, 50)
    ELSE BatchRow(bus, "9H", minutes, 170, 10)

\* a row on the shape of the corridor's second direction
OnReturn(bus, minutes) ==
    IF bus = "B1" THEN BatchRow(bus, "4B", minutes, 30, 60)
    ELSE BatchRow(bus, "9H", minutes, 60, 30)

\* the trip id the GPS API gives for the corridor's first direction
VendorTrip(bus) == IF bus = "B1" THEN "4.B001" ELSE "9H.R04"
WithTrip(row, trip) == SetCol(row, "trip_id", trip)

\* the rows append_history puts after a new fix: the last n fixes of the bus
HistoryRows(bus, n, minutes) == [i \in 1..n |-> OnRoute(bus, minutes - i)]

\* the batches of one vehicle: new fixes and rows of its history, on and off
\* the corridor, on a corridor the schedule does not have, with a trip id
\* of the GPS API, without a new fix, with the start_time_ of poll_api,
\* with trip ids of the GPS API on some fixes and not on others, with the
\* trip id as poll_api rewrites it, with ten rows of history
BusBatches(bus) ==
    { <<>>,
      <<NewRow(OnRoute(bus, 610))>>,
      <<NewRow(OnRoute(bus, 610)), OnRoute(bus, 605)>>,
      <<NewRow(OffRoute(bus, 610)), OnRoute(bus, 605)>>,
      <<NewRow(OnRoute(bus, 610)), OffRoute(bus, 612)>>,
      <<NewRow(OffRoute(bus, 610)), OnRoute(bus, 612)>>,
      <<NewRow(OffRoute(bus, 605)), NewRow(OnRoute(bus, 610))>>,
      <<NewRow(OnRoute(bus, 605)), NewRow(OffRoute(bus, 610))>>,
      <<NewRow(BatchRow(bus, "1", 610, 0, 50))>>,
      <<NewRow(SetCol(OnRoute(bus, 610), "trip_id", "4.B001"))>>,
      <<OnRoute(bus, 610), OnRoute(bus, 605)>>,
      <<SetCol(NewRow(OnRoute(bus, 610)), "start_time_", "05:00:00")>>,
      <<NewRow(OnReturn(bus, 605)),
        NewRow(WithTrip(OnReturn(bus, 610), VendorTrip(bus)))>>,
      <<NewRow(WithTrip(OnRoute(bus, 605), VendorTrip(bus))),
        NewRow(OnRoute(bus, 610))>>,
      <<NewRow(WithTrip(OnReturn(bus, 605), VendorTrip(bus))),
        NewRow(WithTrip(OnRoute(bus, 610), VendorTrip(bus)))>>,
      <<NewRow(WithTrip(OnReturn(bus, 610), map_gps_trip(VendorTrip(bus))))>>,
      <<NewRow(OnRoute(bus, 610))>> \o HistoryRows(bus, MinHistory, 610) }

InitDriver ==
    /\ \E b1 \in BusBatches("B1") : \E b2 \in BusBatches("B2") :
         d_df \in {b1 \o b2, b2 \o b1}
    /\ d_i = 1
    /\ d_results = <<>>
    /\ d_flags = <<>>
    /\ d_out = <<>>
    /\ dpc = "tasks"

\* one task of asyncio.gather(*tasks): process_bus_async for the next bus
ProcessBus ==
    /\ dpc = "tasks"
    /\ d_i <= Len(unique_buses(d_df))
    /\ \E bus \in {unique_buses(d_df)[d_i]} :
       \E r \in {process_bus_async(bus, RowsOfBus(d_df, bus), map_shape)} :
           /\ d_flags' = Append(d_flags, [raised |-> r.raised, off_route |-> r.off_route,
                                          trips |-> r.trips, voted |-> r.voted])
           /\ map_shape' = r.shapes
           /\ IF r.raised /\ ~r.caught
              THEN dpc' = "raised" /\ UNCHANGED d_results
              ELSE dpc' = "tasks" /\ d_results' = Append(d_results, r.result)
    /\ d_i' = d_i + 1
    /\ UNCHANGED <<d_df, d_out>>
    /\ UNCHANGED <<npc, n_args, insert_index, total_distance, shape_before, n_calls,
                   threads>>
    /\ UNCHANGED <<voterVars, projVars, preVars, tickVars>>

\* return {bus: result ...} once every task has ended
DriverReturn ==
    /\ dpc = "tasks"
    /\ d_i > Len(unique_buses(d_df))
    /\ d_out' = zip_results(unique_buses(d_df), d_results)
    /\ dpc' = "done"
    /\ UNCHANGED <<d_df, d_i, d_results, d_flags>>
    /\ UNCHANGED shapeVars
    /\ UNCHANGED <<voterVars, projVars, preVars, tickVars>>

NextDriver == ProcessBus \/ DriverReturn

--------------------------------------------------------------------------
(* socket_manager.py: PubSubWebSocketManager                               *)

Sockets == {"w1", "w2"}
Channels == {"bus.B1", "trip.4B-R01"}

\* self.redis_connection.pubsub(): a pubsub object, subscribed to nothing
NewPubsub == [subs |-> {}, queue |-> <<>>]

\* every variable of the poll loop proper
pollVars == <<history, eta_store, now, tpc, relogin, ticks, history0, eta_store0,
              tick_df, tick_prediction, tick_tasks, push_log, prune_store0,
              prune_now>>

\* PubSubWebSocketManager.__init__, no websocket connected yet
InitSock ==
    /\ channels = <<>>
    /\ pubsub = 0
    /\ pubsubs = <<>>
    /\ readers = <<>>
    /\ client = [ws \in Sockets |-> [pc |-> "idle", channel |-> "", on |-> 0]]
    /\ msgs = <<>>
    /\ sent = [p \in (1..MaxMessages) \X Sockets |-> 0]
    /\ due = {}
    /\ broken = {}

\* the websocket endpoint calls subscribe_to_channel(channel, websocket):
\* await websocket.accept()
SockAccept(ws, c) ==
    /\ client[ws].pc = "idle"
    /\ client' = [client EXCEPT ![ws] = [pc |-> "accepted", channel |-> c, on |-> 0]]
    /\ UNCHANGED <<channels, pubsub, pubsubs, readers, msgs, sent, due, broken>>
    /\ UNCHANGED <<voterVars, projVars, shapeVars, preVars, driverVars, pollVars>>

\* subscribe_to_channel after the accept: the websocket joins the list of
\* its channel; for a new channel connect() replaces the pubsub object and
\* subscribe() sends SUBSCRIBE on it, suspending at the await
SockRegister(ws) ==
    /\ client[ws].pc = "accepted"
    /\ IF client[ws].channel \in DOMAIN channels
       THEN /\ channels' = [channels EXCEPT ![client[ws].channel] = Append(@, ws)]
            /\ client' = [client EXCEPT ![ws].pc = "open"]
            /\ UNCHANGED <<pubsub, pubsubs>>
       ELSE /\ Len(pubsubs) < MaxPubsubs
            /\ channels' = (client[ws].channel :> <<ws>>) @@ channels
            /\ pubsubs' = Append(pubsubs, [subs |-> {client[ws].channel}, queue |-> <<>>])
            /\ pubsub' = Len(pubsubs) + 1
            /\ client' = [client EXCEPT ![ws].pc = "subscribing",
                                        ![ws].on = Len(pubsubs) + 1]
    /\ UNCHANGED <<readers, msgs, sent, due, broken>>
    /\ UNCHANGED <<voterVars, projVars, shapeVars, preVars, driverVars, pollVars>>

\* subscribe() resumes: return self.pubsub, read again after the await;
\* subscribers.append and create_task(_pubsub_data_reader(pubsub_subscriber))
SockSubscribed(ws) ==
    /\ client[ws].pc = "subscribing"
    /\ readers' = Append(readers, [pubsub |-> pubsub, subscribed_on |-> client[ws].on,
                                   channel |-> client[ws].channel, alive |-> TRUE])
    /\ client' = [client EXCEPT ![ws].pc = "open"]
    /\ UNCHANGED <<channels, pubsub, pubsubs, msgs, sent, due, broken>>
    /\ UNCHANGED <<voterVars, projVars, shapeVars, preVars, driverVars, pollVars>>

\* broadcast_to_channel(channel, data): connect() replaces the pubsub
\* object, _publish makes redis queue the message for every pubsub object
\* subscribed to the channel
Broadcast(c) ==
    /\ Len(msgs) < MaxMessages
    /\ Len(pubsubs) < MaxPubsubs
    /\ msgs' = Append(msgs, c)
    /\ pubsub' = Len(pubsubs) + 1
    /\ pubsubs' = Append([i \in 1..Len(pubsubs) |->
                             IF c \in pubsubs[i].subs
                             THEN [pubsubs[i] EXCEPT !.queue = Append(@, Len(msgs) + 1)]
                             ELSE pubsubs[i]],
                         NewPubsub)
    /\ UNCHANGED <<channels, readers, client, sent, due, broken>>
    /\ UNCHANGED <<voterVars, projVars, shapeVars, preVars, driverVars, pollVars>>

\* the client goes away: send_text to its websocket raises from now on
Break(ws) ==
    /\ client[ws].pc = "open"
    /\ ws \notin broken
    /\ broken' = broken \cup {ws}
    /\ UNCHANGED <<channels, pubsub, pubsubs, readers, client, msgs, sent, due>>
    /\ UNCHANGED <<voterVars, projVars, shapeVars, preVars, driverVars, pollVars>>

\* receive_text raises WebSocketDisconnect: disconnect_from_channel removes
\* the websocket; for the last one of the channel it deletes the channel
\* and unsubscribes the channel on the pubsub object current at that time
Disconnect(ws) ==
    /\ client[ws].pc = "open"
    /\ \E remaining \in {SelectSeq(channels[client[ws].channel], LAMBDA x : x # ws)} :
           IF remaining # <<>>
           THEN /\ channels' = [channels EXCEPT ![client[ws].channel] = remaining]
                /\ UNCHANGED pubsubs
           ELSE /\ channels' = [k \in (DOMAIN channels) \ {client[ws].channel} |->
                                   channels[k]]
                /\ pubsubs' = [pubsubs EXCEPT ![pubsub].subs = @ \ {client[ws].channel}]
    /\ client' = [client EXCEPT ![ws].pc = "closed"]
    /\ UNCHANGED <<pubsub, readers, msgs, sent, due, broken>>
    /\ UNCHANGED <<voterVars, projVars, shapeVars, preVars, driverVars, pollVars>>

\* the websockets of a list the loop of _pubsub_data_reader reaches before
\* a send_text raises
Reached(list) ==
    {list[i] : i \in {j \in 1..Len(list) : \A k \in 1..j : list[k] \notin broken}}

\* one pass of the loop of _pubsub_data_reader with a message: KeyError on
\* a channel that was deleted and an exception of send_text both end the
\* task in "except Exception: pass"
ReaderDeliver(r) ==
    /\ readers[r].alive
    /\ pubsubs[readers[r].pubsub].queue # <<>>
    /\ \E m \in {Head(pubsubs[readers[r].pubsub].queue)} :
           /\ pubsubs' = [pubsubs EXCEPT ![readers[r].pubsub].queue = Tail(@)]
           /\ IF msgs[m] \notin DOMAIN channels
              THEN /\ readers' = [readers EXCEPT ![r].alive = FALSE]
                   /\ UNCHANGED <<sent, due>>
              ELSE /\ sent' = [p \in DOMAIN sent |->
                                  IF p[1] = m /\ p[2] \in Reached(channels[msgs[m]])
                                  THEN sent[p] + 1 ELSE sent[p]]
                   /\ due' = due \cup
                               {<<m, channels[msgs[m]][i]>> :
                                    i \in {j \in 1..Len(channels[msgs[m]]) :
                                              channels[msgs[m]][j] \notin broken}}
                   /\ readers' = [readers EXCEPT ![r].alive =
                                     \A i \in 1..Len(channels[msgs[m]]) :
                                         channels[msgs[m]][i] \notin broken]
    /\ UNCHANGED <<channels, pubsub, client, msgs, broken>>
    /\ UNCHANGED <<voterVars, projVars, shapeVars, preVars, driverVars, pollVars>>

NextSock ==
    \/ \E ws \in Sockets : \E c \in Channels : SockAccept(ws, c)
    \/ \E ws \in Sockets : SockRegister(ws)
    \/ \E ws \in Sockets : SockSubscribed(ws)
    \/ \E c \in Channels : Broadcast(c)
    \/ \E ws \in Sockets : Break(ws)
    \/ \E ws \in Sockets : Disconnect(ws)
    \/ \E r \in 1..Len(readers) : ReaderDeliver(r)

--------------------------------------------------------------------------
(* main.py: the poll loop                                                  *)

HistoryCap == 20
OffHoursFrom == 1
OffHoursTo == 5
PollSleep == 5

\* a row of tj_fetch(): the fix of one bus as the GPS API reports it
ApiRow(bus, koridor, minutes, lat, lon, trip) ==
    [bus_code |-> bus, koridor |-> koridor,
     gpsdatetime |-> [kind |-> "str", format |-> "iso", minutes |-> minutes],
     latitude |-> lat, longitude |-> lon, color |-> "red", gpsheading |-> 90,
     gpsspeed |-> 1, trip_id |-> trip, trip_desc |-> "desc"]

\* poll_api up to broadcast_gps: trip_desc dropped, trip_id mapped,
\* start_time_ and start_date_ added
PolledRow(row) ==
    SetCol(SetCol(SetCol(DropCol(row, "trip_desc"), "trip_id", map_gps_trip(row["trip_id"])),
                  "start_time_", "05:00:00"), "start_date_", 20040115)

\* The stages append_bus_stops runs on the rows of one bus, with no except
\* around them.  bus_df = app.calculate_prev_next_stops(bus_df):
stops_from_trip(trp) ==
    IF ~trp.ok THEN trp ELSE Returned(calculate_prev_next_stops(trp.df))

\* bus_df = app.determine_trip(bus_df)
stops_from_following(fol) ==
    IF ~fol.ok THEN fol ELSE stops_from_trip(determine_trip(fol.df))

\* bus_df = app.determine_following_route(bus_df)
stops_from_preprocessed(pre) ==
    IF ~pre.ok THEN pre
    ELSE stops_from_following(determine_following_route(pre.df))

\* the frame gets the names of each bus's first next and previous stop,
\* stage being what the stages left for each bus
name_stops(df, stage) ==
    IF \E bus \in DOMAIN stage : ~stage[bus].ok
    THEN Raised("append_bus_stops")
    ELSE Returned([i \in 1..Len(df) |->
             SetCol(SetCol(df[i], "next_stop",
                           <<"stop_name", stage[df[i]["bus_code"]].df[1]["next_stop"]>>),
                    "prev_stop",
                    <<"stop_name", stage[df[i]["bus_code"]].df[1]["prev_stop"]>>)])

\* append_bus_stops(df)
append_bus_stops(df) ==
    name_stops(df,
        [bus \in {df[i]["bus_code"] : i \in 1..Len(df)} |->
            stops_from_preprocessed(preprocess_gps_data(RowsOfBus(df, bus)))])

\* the same with rpush in place of lpush
RECURSIVE push_history_tail(_, _, _)
push_history_tail(hist, df, i) ==
    IF i > Len(df) THEN hist
    ELSE LET bus == df[i]["bus_code"]
             pushed == hist[bus] \o <<df[i]>>
         IN  push_history_tail([hist EXCEPT
                                   ![bus] = SubSeq(pushed, 1, Min2(Len(pushed), HistoryCap))],
                               df, i + 1)

\* broadcast_to_bus_channel for every row, in order: lpush and ltrim 0..19
RECURSIVE push_history(_, _, _)
push_history(hist, df, i) ==
    IF i > Len(df) THEN hist
    ELSE LET bus == df[i]["bus_code"]
             pushed == <<df[i]>> \o hist[bus]
         IN  push_history([hist EXCEPT
                              ![bus] = SubSeq(pushed, 1, Min2(Len(pushed), HistoryCap))],
                          df, i + 1)

\* get_bus_history(bus_id): lrange 0..19
get_bus_history(hist, bus) == SubSeq(hist[bus], 1, Min2(Len(hist[bus]), HistoryCap))

\* append_history(df): each row as a new fix, followed by the history of
\* its bus when that holds at least 10 rows
RECURSIVE append_history(_, _, _)
append_history(df, hist, i) ==
    IF i > Len(df) THEN <<>>
    ELSE LET history_df == get_bus_history(hist, df[i]["bus_code"])
         IN  <<SetCol(df[i], "is_new", TRUE)>>
                 \o (IF Len(history_df) >= MinHistory THEN history_df ELSE <<>>)
                 \o append_history(df, hist, i + 1)

\* new_df.groupby(["bus_code"]).count()["gpsdatetime"].max()
max_count(df) ==
    LET count(bus) == Len(RowsOfBus(df, bus))
        buses == {df[i]["bus_code"] : i \in 1..Len(df)}
    IN  count(CHOOSE bus \in buses : \A other \in buses : count(other) <= count(bus))

\* the same loop without "if not stops: continue": a result of None counts
\* as an ETA of 0 for the first stop
store_prediction_unguarded(store, prediction, clock) ==
    LET writes == {<<stop, bus>> \in StopIds \X (DOMAIN prediction) :
                      \/ prediction[bus].null /\ stop = "a0"
                      \/ ~prediction[bus].null /\ stop \in DOMAIN prediction[bus].stops}
    IN  [key \in (DOMAIN store) \cup writes |->
            IF key \in writes
            THEN IF prediction[key[2]].null THEN clock
                 ELSE clock + (prediction[key[2]].stops[key[1]] \div 4)
            ELSE store[key]]

\* the loop of predict_eta over prediction.items(): hset for every stop of
\* every bus whose result is neither None nor empty, the ETA in seconds
\* turned into a time
store_prediction(store, prediction, clock) ==
    LET writes == {<<stop, bus>> \in StopIds \X (DOMAIN prediction) :
                      /\ ~prediction[bus].null
                      /\ stop \in DOMAIN prediction[bus].stops}
    IN  [key \in (DOMAIN store) \cup writes |->
            IF key \in writes
            THEN clock + (prediction[key[2]].stops[key[1]] \div 4)
            ELSE store[key]]

\* a prune that deletes nothing
prune_trip_eta_none(store, clock) == store

\* prune_trip_eta(): hdel of every entry whose ETA is before now
prune_trip_eta(store, clock) ==
    [key \in {k \in DOMAIN store : ~(store[k] < clock)} |-> store[key]]

\* broadcast_to_bus_channel without its ltrim, for every row in order
RECURSIVE push_all(_, _, _)
push_all(log, df, i) ==
    IF i > Len(df) THEN log
    ELSE push_all([log EXCEPT ![df[i]["bus_code"]] = <<df[i]>> \o @], df, i + 1)

\* what one call of tj_fetch() can return
Feeds ==
    LET b1 == { <<>>,
                <<ApiRow("B1", "4B", 0, 0, 50, "4.B001")>>,
                <<ApiRow("B1", "4B", 0, 30, 60, "4.B001")>>,
                <<ApiRow("B1", "4B", 0, 140, 50, "4.B001")>> }
        b2 == { <<>>,
                <<ApiRow("B2", "9H", 0, 50, 10, "9H.R04")>>,
                <<ApiRow("B2", "1", 0, 0, 50, "1.R01")>> }
    IN  {x \o y : x \in b1, y \in b2}

\* the fix of the feed stamped with the time of the poll
Stamped(row, clock) ==
    SetCol(row, "gpsdatetime",
           [kind |-> "str", format |-> "iso", minutes |-> clock \div 60])

\* a history list of n rows as earlier polls pushed them: the bus on its
\* corridor, a fix every minute up to the minute before the clock
HistoryOf(bus, n, clock) ==
    [i \in 1..n |->
        PolledRow(IF bus = "B1"
                  THEN ApiRow(bus, "4B", (clock \div 60) - i, 0, 10, "4.B001")
                  ELSE ApiRow(bus, "9H", (clock \div 60) - i, 50, 10, "9H.R04"))]

\* the seconds a run of prune_trip_eta can take
PruneSeconds == {0, 1}

InitTick ==
    /\ now \in {3595, 3600, 17995, 18000, 43200}
    /\ \E n1 \in {0, 9, 10, 20} : \E n2 \in {0, 10} :
         history = [bus \in Buses |->
                       IF bus = "B1" THEN HistoryOf(bus, n1, now) ELSE HistoryOf(bus, n2, now)]
    /\ eta_store \in { <<>>,
                       (<<"a2", "B1">> :> (now - 60)) @@ (<<"b1", "B1">> :> (now + 600))
                           @@ (<<"h1", "B2">> :> (now + 300)) }
    /\ tpc = "poll"
    /\ relogin = FALSE
    /\ ticks = 0
    /\ history0 = history
    /\ eta_store0 = eta_store
    /\ tick_df = <<>>
    /\ tick_prediction = [ran |-> FALSE, prediction |-> <<>>]
    /\ tick_tasks = <<>>
    /\ push_log = history
    /\ prune_store0 = eta_store
    /\ prune_now = now
    /\ InitSock

\* a test that lets the last of the off hours through
InOffHours_before_last ==
    OffHoursFrom <= (now \div 3600) % 24 /\ (now \div 3600) % 24 < OffHoursTo - 1

\* 1 <= current_time.hour < 5, the clock being Asia/Jakarta time
InOffHours == OffHoursFrom <= (now \div 3600) % 24 /\ (now \div 3600) % 24 < OffHoursTo

\* except Exception as e: print(e); await tj_login().  An exception of
\* tj_login itself leaves poll_api and, with it, the loop of poll()
after_login(login_ok) == IF login_ok THEN "prune" ELSE "dead"

\* what determine_trip left in each task of predict_async
trips_of(tasks) ==
    [bus \in DOMAIN tasks |-> [trips |-> tasks[bus].trips, voted |-> tasks[bus].voted]]

\* poll_api(): fetch, broadcast_gps, predict_eta; any exception ends it in
\* tj_login()
PollApi(fetched, fetch_ok, login_ok) ==
    /\ tpc = "poll"
    /\ ticks < MaxTicks
    /\ ~InOffHours
    /\ \E df \in {[i \in 1..Len(fetched) |-> PolledRow(Stamped(fetched[i], now))]} :
       \E stops \in {append_bus_stops(df)} :
       \E pushed \in {push_history(history, df, 1)} :
           /\ history0' = history
           /\ eta_store0' = eta_store
           /\ tick_df' = IF fetch_ok THEN df ELSE <<>>
           /\ IF ~fetch_ok \/ df = <<>> \/ ~stops.ok
              THEN /\ relogin' = TRUE
                   /\ tpc' = after_login(login_ok)
                   /\ tick_prediction' = [ran |-> FALSE, prediction |-> <<>>]
                   /\ tick_tasks' = <<>>
                   /\ UNCHANGED <<history, eta_store, push_log>>
              ELSE \E new_df \in {append_history(stops.df, pushed, 1)} :
                   IF max_count(new_df) < MinHistory
                   THEN /\ relogin' = FALSE
                        /\ tpc' = "prune"
                        /\ history' = pushed
                        /\ push_log' = push_all(push_log, df, 1)
                        /\ tick_prediction' = [ran |-> FALSE, prediction |-> <<>>]
                        /\ tick_tasks' = <<>>
                        /\ UNCHANGED eta_store
                   ELSE \E predicted \in {predict_async(new_df, map_shape)} :
                        IF ~predicted.ok
                        THEN /\ relogin' = TRUE
                             /\ tpc' = after_login(login_ok)
                             /\ history' = pushed
                             /\ push_log' = push_all(push_log, df, 1)
                             /\ tick_prediction' = [ran |-> FALSE, prediction |-> <<>>]
                             /\ tick_tasks' = <<>>
                             /\ UNCHANGED eta_store
                        ELSE /\ relogin' = FALSE
                             /\ tpc' = "prune"
                             /\ history' = pushed
                             /\ push_log' = push_all(push_log, df, 1)
                             /\ tick_prediction' =
                                    [ran |-> TRUE, prediction |-> predicted.prediction]
                             /\ tick_tasks' = trips_of(predicted.tasks)
                             /\ eta_store' = store_prediction(eta_store,
                                                 predicted.prediction, now)
    /\ ticks' = ticks + 1
    /\ UNCHANGED <<now, prune_store0, prune_now, sockVars>>
    /\ UNCHANGED <<voterVars, projVars, shapeVars, preVars, driverVars>>

\* the poll is skipped between 01:00 and 05:00
SkipOffHours ==
    /\ tpc = "poll"
    /\ ticks < MaxTicks
    /\ InOffHours
    /\ tpc' = "sleep"
    /\ ticks' = ticks + 1
    /\ UNCHANGED <<history, eta_store, now, relogin, history0, eta_store0, tick_df,
                   tick_prediction, tick_tasks, push_log, prune_store0, prune_now,
                   sockVars>>
    /\ UNCHANGED <<voterVars, projVars, shapeVars, preVars, driverVars>>

\* await prune_trip_eta(): now = datetime.now() is read once, at its start
PruneTripEta ==
    /\ tpc = "prune"
    /\ prune_store0' = eta_store
    /\ prune_now' = now
    /\ eta_store' = prune_trip_eta(eta_store, now)
    /\ \E d \in PruneSeconds : now' = now + d
    /\ tpc' = "sleep"
    /\ UNCHANGED <<history, relogin, ticks, history0, eta_store0, tick_df,
                   tick_prediction, tick_tasks, push_log, sockVars>>
    /\ UNCHANGED <<voterVars, projVars, shapeVars, preVars, driverVars>>

\* await asyncio.sleep(5); the keys bus.<bus_code>, which set_expired gave
\* an expiry time at each push, may reach it meanwhile
Sleep ==
    /\ tpc = "sleep"
    /\ now' = now + PollSleep
    /\ tpc' = "poll"
    /\ \E expired \in BOOLEAN :
           IF expired
           THEN /\ history' = [bus \in Buses |-> <<>>]
                /\ push_log' = [bus \in Buses |-> <<>>]
           ELSE UNCHANGED <<history, push_log>>
    /\ UNCHANGED <<eta_store, relogin, ticks, history0, eta_store0, tick_df,
                   tick_prediction, tick_tasks, prune_store0, prune_now, sockVars>>
    /\ UNCHANGED <<voterVars, projVars, shapeVars, preVars, driverVars>>

NextTicks ==
    \/ \E fetched \in Feeds : \E fetch_ok \in BOOLEAN : \E login_ok \in BOOLEAN :
         PollApi(fetched, fetch_ok, login_ok)
    \/ SkipOffHours
    \/ PruneTripEta
    \/ Sleep

--------------------------------------------------------------------------
(* predict_eta as a state machine: one action per fix of the window        *)

\* the fixes a window is drawn from, with their stop context: between two
\* stops of each trip, and before the first stop of each paired trip
\* a fix as the stages before predict_eta leave it
FixRow(trip, prev, next, lat, lon, dist, speed, seq) ==
    [bus_code |-> "B1", koridor |-> feed_trips[CHOOSE i \in 1..Len(feed_trips) :
                                       feed_trips[i].trip_id = trip].route_id,
     gpsdatetime |-> [kind |-> "Timestamp", minutes |-> 60], day |-> 0, hour |-> 1,
     latitude |-> lat, longitude |-> lon, gpsheading |-> 90, gpsspeed |-> speed,
     is_new |-> TRUE, distance_route |-> 0, following_route |-> TRUE,
     trip_shape |-> ShapeOfTrip(trip), trip_id |-> trip,
     prev_stop |-> prev, next_stop |-> next,
     prev_stop_seq |-> seq - 1, next_stop_seq |-> seq,
     next_stop_dist |-> dist, categorized_stop |-> categorized_stop(seq, NumBins)]

RowInputs ==
    { FixRow("4B-R01", "a0", "a1", 0, 10, 50, 0, 1),
      FixRow("4B-R01", "a1", "a2", 0, 70, 20, 1, 2),
      FixRow("4B-R01", "b2", "a0", 5, 0, 5, 0, 0),
      FixRow("4B-R02", "b0", "b1", 30, 60, 20, 0, 1),
      FixRow("4B-R02", "b1", "b2", 10, 20, 20, 2, 2),
      FixRow("4B-R02", "a2", "b0", 20, 90, 10, 0, 0),
      FixRow("D21-R01", "d0", "d1", 0, 50, 10, 0, 1),
      FixRow("D21-R01", "d1", "d2", 0, 60, 30, 1, 2),
      FixRow("9H-R04", "h0", "h1", 50, 10, 20, 0, 1),
      FixRow("9H-R04", "h1", "h2", 50, 40, 20, 1, 2),
      FixRow("9H-R05", "h3", "h0", 60, 30, 40, 0, 2) }

Windows == UNION {[1..n -> RowInputs] : n \in 1..MaxWindow}

InitProj ==
    /\ gps \in Windows
    /\ ppc = "loop"
    /\ row_i = 0
    /\ preds = <<>>
    /\ row_stops = <<>>
    /\ modified_rows = [rows |-> <<>>, halted |-> FALSE, error |-> FALSE]
    /\ eta_result = <<>>
    /\ first_preds = <<>>

\* last_stop = gps.loc[0, 'prev_stop']
last_stop_of(window) == window[1].prev_stop

\* one task of predict_eta_async, _process_row_async: an empty modified_rows
\* has no 'next_stop' column, and the KeyError ends the prediction
ProjRow ==
    /\ ppc = "loop"
    /\ row_i < Len(gps)
    /\ \E gen \in {generate_modified_rows(PyAt(gps, row_i), last_stop_of(gps))} :
       \E r \in {predict_rows(gen, preds)} :
           /\ modified_rows' = gen
           /\ row_i' = row_i + 1
           /\ IF ~r.ok
              THEN /\ ppc' = "error"
                   /\ UNCHANGED <<preds, row_stops, first_preds>>
              ELSE /\ ppc' = "loop"
                   /\ preds' = r.preds
                   /\ first_preds' = IF row_i = 0 THEN r.preds ELSE first_preds
                   /\ row_stops' = Append(row_stops,
                          [i \in 1..Len(gen.rows) |-> gen.rows[i].next_stop])
    /\ UNCHANGED <<gps, eta_result>>
    /\ UNCHANGED <<voterVars, shapeVars, preVars, driverVars, tickVars>>

\* preds = self._finalize_predictions(preds, len(gps)); return preds
ProjFinalize ==
    /\ ppc = "loop"
    /\ row_i = Len(gps)
    /\ eta_result' = finalize_predictions(gathered_first(first_preds, preds), Len(gps))
    /\ ppc' = "done"
    /\ UNCHANGED <<gps, row_i, preds, row_stops, modified_rows, first_preds>>
    /\ UNCHANGED <<voterVars, shapeVars, preVars, driverVars, tickVars>>

NextProjector == ProjRow \/ ProjFinalize

--------------------------------------------------------------------------
(* The voter as a state machine: one action per row of gps_data            *)

\* the positions a fix is drawn from: on 4B-R01, on 4B-R02, between them
FixPoints ==
    { <<10, 0>>, <<50, 0>>, <<60, 0>>, <<70, 0>>, <<90, 0>>,
      <<60, 30>>, <<40, 20>>, <<40, 10>>, <<20, 10>>, <<10, 10>>, <<0, 10>>,
      <<50, 5>> }

OnShape(p, shape_id) == get_nearest_distance(p, feed_shapes[shape_id]) = 0

\* the distance travelled along the shape up to a point lying on it
ArcPos(p, shape_id) ==
    LET line == feed_shapes[shape_id]
        seglen(i) == IF line[i][1] >= line[i + 1][1]
                     THEN (line[i][1] - line[i + 1][1])
                          + Max2(line[i][2] - line[i + 1][2], line[i + 1][2] - line[i][2])
                     ELSE (line[i + 1][1] - line[i][1])
                          + Max2(line[i][2] - line[i + 1][2], line[i + 1][2] - line[i][2])
        on(i) == NearestOnSegment(p, line[i], line[i + 1]) = p
        k == CHOOSE i \in 1..(Len(line) - 1) : on(i) /\ \A j \in 1..(i - 1) : ~on(j)
        F[n \in 0..Len(line)] == IF n = 0 THEN 0 ELSE F[n - 1] + seglen(n)
        off == Max2(p[1] - line[k][1], line[k][1] - p[1])
               + Max2(p[2] - line[k][2], line[k][2] - p[2])
    IN  F[k - 1] + off

VoterState == [previous_point |-> previous_point, queueK |-> queueK,
               results_trip |-> results_trip, no_methods |-> no_methods,
               blocked |-> vpc = "blocked"]

InitVoter ==
    /\ K = KDefault
    /\ route_name \in Routes
    /\ previous_point = NoPoint
    /\ queueK = <<>>
    /\ results_trip = <<>>
    /\ no_methods = <<>>
    /\ last_row = NoPoint
    /\ prev_row = NoPoint
    /\ pp_before = NoPoint
    /\ on_shapes = {ShapeIdsOf(route_name)[i] : i \in 1..Len(ShapeIdsOf(route_name))}
    /\ gaps_ok = TRUE
    /\ choices = <<>>
    /\ vpc = "loop"

\* the body of the loop of _determine_trip_helper for a row at p
VoterLoopBody(p) ==
    /\ vpc = "loop"
    /\ \E st \in {VoterStep(VoterState, p, K, trip1_name_of(route_name),
                             trip2_name_of(route_name))} :
           /\ previous_point' = st.previous_point
           /\ queueK' = st.queueK
           /\ results_trip' = st.results_trip
           /\ no_methods' = st.no_methods
           /\ vpc' = IF st.blocked THEN "blocked" ELSE "loop"
           /\ choices' = IF Len(st.results_trip) > Len(results_trip)
                             /\ PyAt(st.no_methods, -1) # 3
                          THEN Append(choices,
                                      choose_trip(p, previous_point,
                                                  trip1_name_of(route_name),
                                                  trip2_name_of(route_name))[1])
                          ELSE choices
    /\ last_row' = p
    /\ prev_row' = last_row
    /\ pp_before' = previous_point
    /\ on_shapes' = {s \in on_shapes :
                        /\ OnShape(p, s)
                        /\ last_row # NoPoint => ArcPos(last_row, s) < ArcPos(p, s)}
    /\ gaps_ok' = (gaps_ok /\ (last_row = NoPoint
                      \/ PlaneDistSq(last_row, p) > SkipThreshold * SkipThreshold))
    /\ UNCHANGED <<K, route_name>>
    /\ UNCHANGED <<projVars, shapeVars, preVars, driverVars, tickVars>>

\* for index, row in gps_data.iterrows(): ...
VoterRow(p) ==
    /\ Len(no_methods) < MaxFixes
    /\ VoterLoopBody(p)

\* return results_trip
VoterReturn ==
    /\ vpc = "loop"
    /\ Len(no_methods) > 0
    /\ vpc' = "done"
    /\ UNCHANGED <<K, route_name, previous_point, queueK, results_trip,
                   no_methods, last_row, prev_row, pp_before, on_shapes, gaps_ok,
                   choices>>
    /\ UNCHANGED <<projVars, shapeVars, preVars, driverVars, tickVars>>

NextVoter == (\E p \in FixPoints : VoterRow(p)) \/ VoterReturn

\* The voter on longer windows of corridor 4B, so that the queue evicts:
\* a position on 4B-R01 and one on 4B-R02 far from the other shape, and
\* two positions 10 m apart where the shapes run 10 m from each other
WindowPoints == { <<60, 0>>, <<60, 30>>, <<10, 0>>, <<10, 10>> }

InitWindow ==
    /\ InitVoter
    /\ route_name = "4B"

WindowRow(p) ==
    /\ Len(no_methods) < MaxVotes
    /\ VoterLoopBody(p)

NextWindow == (\E p \in WindowPoints : WindowRow(p)) \/ VoterReturn

\* TripDeterminer(feed, K): the window sizes a caller may pass
WindowSizes == {1, 2, KDefault}

\* determine_trip on corridor 4B of a TripDeterminer of any window size
InitSizes ==
    /\ K \in WindowSizes
    /\ route_name = "4B"
    /\ previous_point = NoPoint
    /\ queueK = <<>>
    /\ results_trip = <<>>
    /\ no_methods = <<>>
    /\ last_row = NoPoint
    /\ prev_row = NoPoint
    /\ pp_before = NoPoint
    /\ on_shapes = {ShapeIdsOf(route_name)[i] : i \in 1..Len(ShapeIdsOf(route_name))}
    /\ gaps_ok = TRUE
    /\ choices = <<>>
    /\ vpc = "loop"

--------------------------------------------------------------------------
(* Claims about the voter                                                  *)

TwoDirections == trip2_name_of(route_name) # None

\* the distances of the last row to the two shapes differ by at most 20 m
LastRowAmbiguous ==
    ~AbsDiffExceeds(
        get_nearest_distance(last_row, feed_shapes[trip1_name_of(route_name)]),
        get_nearest_distance(last_row, feed_shapes[trip2_name_of(route_name)]),
        20)

C6_VoterStabilityAsClaimed ==
    (TwoDirections /\ gaps_ok)
        => \A D \in on_shapes :
               \A i \in 1..Len(results_trip) : results_trip[i] = D

\* C21: a row classified as method 3 leaves previous_point and the queue
\* as they were before it, adds no choice, and gets the trip committed for
\* the row before it.
C21_SkipFrame ==
    [][(Len(no_methods') = Len(no_methods) + 1 /\ PyAt(no_methods', -1) = 3) =>
          /\ results_trip # <<>>
          /\ previous_point' = previous_point
          /\ queueK' = queueK
          /\ choices' = choices
          /\ results_trip' = Append(results_trip, PyAt(results_trip, -1))]_vars

\* a row was skipped at a position other than the remembered one, the
\* queue holding two different trips
C21_Witness ==
    /\ no_methods # <<>>
    /\ PyAt(no_methods, -1) = 3
    /\ previous_point = pp_before
    /\ previous_point # last_row
    /\ \E i \in 1..Len(queueK) : queueK[i] # queueK[1]
    /\ PyAt(results_trip, -1) = PyAt(results_trip, -2)

\* C22 as claimed: the method of a row is 1 or 2 only for the first row,
\* and every later row at most 15 m from the row before it has method 3.
C22_MethodSelectionAsClaimed ==
    no_methods # <<>> =>
        /\ PyAt(no_methods, -1) \in {1, 2} => Len(no_methods) = 1
        /\ (Len(no_methods) > 1
               /\ PlaneDistSq(prev_row, last_row) <= SkipThreshold * SkipThreshold)
              => PyAt(no_methods, -1) = 3

--------------------------------------------------------------------------
(* Claims about the projector                                              *)

\* the number of accumulator entries fix i of the window gave to a stop
Contributed(i, stop) == Count(row_stops[i], stop)

\* C7 as claimed: after a window of M fixes, a stop is published iff every
\* fix contributed an entry for it, an accumulated stop is discarded exactly
\* when it has fewer than M entries, and a published stop has exactly one
\* entry per fix.
C7_ProjectorAsClaimed ==
    ppc = "done" =>
        \A stop \in StopIds :
            /\ stop \in DOMAIN eta_result
                   <=> \A i \in 1..Len(gps) : Contributed(i, stop) >= 1
            /\ stop \in DOMAIN preds =>
                   (stop \notin DOMAIN eta_result <=> Len(preds[stop]) < Len(gps))
            /\ stop \in DOMAIN eta_result =>
                   \A i \in 1..Len(gps) : Contributed(i, stop) = 1

\* the rows of modified_rows that are virtual: all but the real row, which
\* comes first and only when the fix's next_stop is the trip's first stop
VirtualRows(f, gen) ==
    LET stops == get_stops(trip_map[f.trip_id])
    IN  {k \in 1..Len(gen.rows) :
            ~(k = 1 /\ get_start_index(stops, f.next_stop, 0) = 0)}

\* C8 as claimed: for every fix f of the window, the generation of f's rows
\* halts when the next stop equals f's own prev_stop, and no virtual row of
\* f has next_stop equal to f's prev_stop.
C8_LapClosureAsClaimed ==
    (ppc # "idle" /\ row_i >= 1) =>
        LET f == gps[row_i]
        IN  /\ modified_rows.halted => modified_rows.halt_stop = f.prev_stop
            /\ \A k \in VirtualRows(f, modified_rows) :
                   modified_rows.rows[k].next_stop # f.prev_stop

\* C8 amended: for every fix f of the window, the generation of f's rows
\* halts when the next stop equals the prev_stop of the FIRST fix of the
\* window, and no virtual row of f has next_stop equal to that stop.
C8_LapClosure ==
    (ppc # "idle" /\ row_i >= 1) =>
        LET f == gps[row_i]
        IN  /\ modified_rows.halted => modified_rows.halt_stop = gps[1].prev_stop
            /\ \A k \in VirtualRows(f, modified_rows) :
                   modified_rows.rows[k].next_stop # gps[1].prev_stop

\* a second fix whose prev_stop differs from the first fix's, whose
\* generation emitted virtual rows and was then halted by lap closure
C8_Witness ==
    /\ ppc = "loop"
    /\ row_i = 2
    /\ gps[2].prev_stop # gps[1].prev_stop
    /\ modified_rows.halted
    /\ VirtualRows(gps[2], modified_rows) # {}

--------------------------------------------------------------------------
(* Claims about the along-shape distance                                   *)

\* C9: after next_stop_distance returns, whatever the trip, the stop pair
\* and the anchor, every trip's shape list is what it was before the call:
\* same length, same points, same order.
C9_InsertionPurity ==
    npc = "returned" =>
        /\ map_shape = shape_before
        /\ \A t \in TripIds :
               /\ Len(map_shape[t]) = Len(shape_before[t])
               /\ \A i \in 1..Len(map_shape[t]) : map_shape[t][i] = shape_before[t][i]

\* a call that inserted the anchor before the last point of the shape,
\* summed a positive distance and returned
C9_Witness ==
    /\ npc = "returned"
    /\ insert_index < Len(map_shape[n_args.trip_id])
    /\ total_distance > 0

\* the distance a task gets when it runs alone on the shapes as loaded
AloneDistance(t) ==
    next_stop_distance(PristineShapes, threads[t].trip_id,
        trip_map[threads[t].trip_id].status[threads[t].start_index + 1],
        trip_map[threads[t].trip_id].status[threads[t].end_index + 1],
        threads[t].coord).dist

\* C15 as claimed: under any interleaving of the steps of two tasks that
\* compute next_stop_distance on the same trip, once both have returned
\* each has the distance it gets when it runs alone and every shape list is
\* what it was at initialization.
C15_SharedShapesAsClaimed ==
    (\A t \in Threads : threads[t].pc \in {"done", "raised"}) =>
        /\ map_shape = PristineShapes
        /\ \A t \in Threads :
               /\ threads[t].pc = "done"
               /\ threads[t].total_distance = AloneDistance(t)

--------------------------------------------------------------------------
(* Claims about the preprocessor                                           *)

\* C10 as claimed: applying preprocess_gps_data to its own output succeeds
\* and yields the same batch, preprocess(preprocess(B)) = preprocess(B).
C10_IdempotentAsClaimed ==
    prepc = "twice" => (twice.ok /\ twice.df = once.df)

--------------------------------------------------------------------------
(* Claims about the driver                                                 *)

\* the batch of the bus of task i, and the rows of a frame with the latest
\* timestamp
SliceOfTask(i) == RowsOfBus(d_df, unique_buses(d_df)[i])
Latest(df) ==
    {k \in 1..Len(df) :
        \A m \in 1..Len(df) : df[m]["gpsdatetime"].minutes <= df[k]["gpsdatetime"].minutes}
IsOffRoute(row) ==
    row["koridor"] \in FeedRoutes /\ distance_to_line(row) > RouteThresh * RouteThresh
IsOnRoute(row) ==
    row["koridor"] \in FeedRoutes /\ distance_to_line(row) <= RouteThresh * RouteThresh

WithoutBus(df, bus) == SelectSeq(df, LAMBDA row : row["bus_code"] # bus)

\* C3: predict_async never raises; if a stage of one vehicle's pipeline
\* raises, that vehicle's result is null and every other vehicle gets the
\* result it gets when the failing vehicle is absent from the batch; the
\* returned map has one entry per distinct vehicle.
C3_DriverIsolation ==
    /\ dpc # "raised"
    /\ dpc = "done" =>
        /\ DOMAIN d_out = {d_df[k]["bus_code"] : k \in 1..Len(d_df)}
        /\ \A i \in 1..Len(d_flags) :
               d_flags[i].raised =>
                   LET bus == unique_buses(d_df)[i]
                       rest == predict_async(WithoutBus(d_df, bus), PristineShapes)
                   IN  /\ d_out[bus].null
                       /\ rest.ok
                       /\ \A v \in (DOMAIN d_out) \ {bus} :
                              d_out[v] = rest.prediction[v]

\* a returned map in which one vehicle's pipeline raised and another
\* vehicle has ETAs
C3_Witness ==
    /\ dpc = "done"
    /\ \E i \in 1..Len(d_flags) : d_flags[i].raised
    /\ \E v \in DOMAIN d_out : ~d_out[v].null /\ DOMAIN d_out[v].stops # {}

\* the window of task i: the rows of its bus as preprocess_gps_data orders
\* them, the new ones only
WindowOfTask(i) == SelectSeq(sort_values(SliceOfTask(i)), IsNew)

\* C11 as claimed: whenever determine_trip returns for a vehicle's window,
\* every fix whose trip_id is a key of map_trip_id has the table's value as
\* its trip_shape, whichever fix comes first, and the voter was asked only
\* when no fix of the window has a trip_id of the table.
C11_DirectionOverrideAsClaimed ==
    \A i \in 1..Len(d_flags) :
        LET window == WindowOfTask(i)
            keyed == {k \in 1..Len(window) : window[k]["trip_id"] \in DOMAIN map_trip_id}
        IN  d_flags[i].trips # <<>> =>
                /\ \A k \in keyed :
                       d_flags[i].trips[k] = map_trip_id[window[k]["trip_id"]]
                /\ d_flags[i].voted => keyed = {}

\* C13 as claimed: whenever a vehicle's task returns ETAs, the window the
\* projector iterated over and aggregated, the rows process_bus_async
\* passed on to it, held at least 10 fixes of the vehicle.
C13_MinimumWindowAsClaimed ==
    \A i \in 1..Len(d_results) :
        (~d_results[i].null /\ DOMAIN d_results[i].stops # {})
            => Len(WindowOfTask(i)) >= MinHistory

--------------------------------------------------------------------------
(* Claims about the poll loop                                              *)

\* the tick left every stop.<stop_id> entry of the bus as it was
EtaEntriesKept(bus) ==
    \A stop \in StopIds :
        /\ <<stop, bus>> \in DOMAIN eta_store <=> <<stop, bus>> \in DOMAIN eta_store0
        /\ <<stop, bus>> \in DOMAIN eta_store =>
               eta_store[<<stop, bus>>] = eta_store0[<<stop, bus>>]

\* the result of the bus in the tick is null, empty or absent
NullResultFor(bus) ==
    \/ ~tick_prediction.ran
    \/ bus \notin DOMAIN tick_prediction.prediction
    \/ tick_prediction.prediction[bus].null
    \/ DOMAIN tick_prediction.prediction[bus].stops = {}

\* C2: if at the start of a tick a vehicle's history holds 9 fixes and the
\* tick brings one new fix for it, the vehicle's result for the tick is
\* null and the tick writes nothing for it into the ETA store, whatever
\* the other vehicles of the batch have.
C2_InsufficientHistory ==
    tpc = "prune" =>
        \A bus \in Buses :
            (Len(history0[bus]) = MinHistory - 1 /\ Len(RowsOfBus(tick_df, bus)) = 1)
                => (NullResultFor(bus) /\ EtaEntriesKept(bus))

\* a tick that brought one fix for a vehicle with 9 fixes of history and
\* one for a vehicle with 10, and ran the prediction
C2_Witness ==
    /\ tpc = "prune"
    /\ Len(history0["B1"]) = MinHistory - 1
    /\ Len(RowsOfBus(tick_df, "B1")) = 1
    /\ Len(history0["B2"]) >= MinHistory
    /\ Len(RowsOfBus(tick_df, "B2")) = 1
    /\ tick_prediction.ran
    /\ \E stop \in StopIds : <<stop, "B1">> \in DOMAIN eta_store0

\* C4 as claimed: if a vehicle's result for a tick is null or empty, the
\* tick changes no store for it: its stop.<stop_id> entries keep their
\* values and its history list bus.<bus_code> is unchanged.
C4_NoStoreUpdateAsClaimed ==
    tpc = "prune" =>
        \A bus \in Buses :
            (RowsOfBus(tick_df, bus) # <<>> /\ NullResultFor(bus))
                => (EtaEntriesKept(bus) /\ history[bus] = history0[bus])

\* the history list of the bus is as it was, or has the fix of the tick
\* pushed at its head and is cut to 20 entries
HistoryKeptOrPushed(bus) ==
    \/ history[bus] = history0[bus]
    \/ /\ Len(history[bus]) = Min2(Len(history0[bus]) + 1, HistoryCap)
       /\ history[bus][1] = RowsOfBus(tick_df, bus)[1]
       /\ \A i \in 2..Len(history[bus]) : history[bus][i] = history0[bus][i - 1]

\* C4 amended: if a vehicle's result for a tick is null or empty, every
\* stop.<stop_id> entry of the vehicle keeps its prior value; its history
\* list bus.<bus_code> is NOT kept: unless poll_api ended in an exception
\* before the broadcast, the fix of the tick is pushed onto it.
C4_NoStoreUpdate ==
    tpc = "prune" =>
        \A bus \in Buses :
            (RowsOfBus(tick_df, bus) # <<>> /\ NullResultFor(bus))
                => (EtaEntriesKept(bus) /\ HistoryKeptOrPushed(bus))

\* a tick in which the prediction ran and gave null for a vehicle that has
\* ETA entries, and pushed the vehicle's fix onto its history
C4_Witness ==
    /\ tpc = "prune"
    /\ tick_prediction.ran
    /\ RowsOfBus(tick_df, "B1") # <<>>
    /\ tick_prediction.prediction["B1"].null
    /\ \E stop \in StopIds : <<stop, "B1">> \in DOMAIN eta_store0
    /\ history["B1"] # history0["B1"]

\* the vehicles the GPS API reported with trip id 4.B001 in the tick:
\* poll_api has rewritten the id with map_gps_trip
ReportedAs(vendor_trip) ==
    {bus \in Buses : \E i \in 1..Len(tick_df) :
        /\ tick_df[i]["bus_code"] = bus
        /\ tick_df[i]["trip_id"] = map_gps_trip(vendor_trip)}

\* C12 as claimed: for a vehicle the GPS API reports with trip id 4.B001,
\* whenever the tick's pipeline reaches determine_trip for it, every fix
\* of its window is resolved to 4B-R01_shp and the voter is not asked.
C12_OverrideHitAsClaimed ==
    (tpc = "prune" /\ tick_prediction.ran) =>
        \A bus \in ReportedAs("4.B001") \cap DOMAIN tick_tasks :
            tick_tasks[bus].trips # <<>> =>
                /\ \A k \in 1..Len(tick_tasks[bus].trips) :
                       tick_tasks[bus].trips[k] = "4B-R01_shp"
                /\ ~tick_tasks[bus].voted

\* the annotation of append_bus_stops raises on the rows of the bus alone
AnnotationRaises(bus) == ~append_bus_stops(RowsOfBus(tick_df, bus)).ok

\* C26 as claimed: when the tick fetched fixes of two vehicles and the
\* stop annotation raises for one of them only, the other vehicle still
\* gets the fix of the tick pushed at the head of its history list.
C26_TickIsolationAsClaimed ==
    tpc \in {"prune", "dead"} =>
        \A bus \in Buses : \A other \in Buses \ {bus} :
            ( /\ RowsOfBus(tick_df, bus) # <<>>
              /\ RowsOfBus(tick_df, other) # <<>>
              /\ AnnotationRaises(bus)
              /\ ~AnnotationRaises(other) )
                => /\ history[other] # <<>>
                   /\ history[other][1] = RowsOfBus(tick_df, other)[1]

\* C27 as claimed: no message is sent twice to a websocket, and a message
\* a reader has taken was sent to every websocket that was registered on
\* the message's channel then and whose own send does not fail.
C27_ExactlyOnceAsClaimed ==
    /\ \A p \in DOMAIN sent : sent[p] <= 1
    /\ \A p \in due : sent[p] >= 1

\* C30 as claimed: every reader task reads from the pubsub object on which
\* the subscribe_to_channel call that started it subscribed its channel.
C30_SubscriptionIdentityAsClaimed ==
    \A r \in 1..Len(readers) : readers[r].pubsub = readers[r].subscribed_on

\* C14 as claimed: the poll loop never stops: whatever a tick ended in
\* (the prune after poll_api, the sleep, or an exception of the
\* re-authentication), the head of the loop is reached again, where the
\* next tick starts.
C14_PollLivenessAsClaimed ==
    (tpc \in {"prune", "sleep", "dead"}) ~> (tpc = "poll")

\* C17: in every state of the poll loop, what get_bus_history reads for a
\* vehicle holds at most 20 entries, and they are the last fixes pushed for
\* the vehicle since its list was created, the newest first: as many as
\* were pushed when fewer than 20 were, else the newest 20.
C17_BoundedHistory ==
    \A bus \in Buses :
        /\ Len(get_bus_history(history, bus)) <= HistoryCap
        /\ Len(get_bus_history(history, bus)) = Min2(Len(push_log[bus]), HistoryCap)
        /\ \A i \in 1..Len(get_bus_history(history, bus)) :
               get_bus_history(history, bus)[i] = push_log[bus][i]

\* a tick pushed a fix onto a list that held 20: 21 were pushed, the list
\* holds 20 with the fix of the tick at its head
C17_Witness ==
    /\ tpc = "prune"
    /\ Len(history0["B1"]) = HistoryCap
    /\ Len(push_log["B1"]) = HistoryCap + 1
    /\ RowsOfBus(tick_df, "B1") # <<>>
    /\ get_bus_history(history, "B1")[1] = RowsOfBus(tick_df, "B1")[1]
    /\ get_bus_history(history, "B1")[HistoryCap] = history0["B1"][HistoryCap - 1]

\* C18: a run of prune_trip_eta, started at time now and ended at time
\* now', leaves no entry whose ETA was before now, and leaves every entry
\* whose ETA is after now' in the store with its value.
C18_EtaPruning ==
    [][(tpc = "prune" /\ tpc' = "sleep") =>
          \A key \in DOMAIN eta_store :
              /\ eta_store[key] < now => key \notin DOMAIN eta_store'
              /\ eta_store[key] > now' =>
                     (key \in DOMAIN eta_store' /\ eta_store'[key] = eta_store[key])]_vars

\* a prune that took a second has ended: it deleted an entry whose ETA was
\* before its start and kept one whose ETA is after its end
C18_Witness ==
    /\ tpc = "sleep"
    /\ now > prune_now
    /\ \E key \in DOMAIN prune_store0 :
           prune_store0[key] < prune_now /\ key \notin DOMAIN eta_store
    /\ \E key \in DOMAIN prune_store0 :
           prune_store0[key] > now /\ key \in DOMAIN eta_store

\* the last min(n, K) of the n trips chosen for the rows not skipped
VoteWindow ==
    SubSeq(choices, Len(choices) - Min2(Len(choices), K) + 1, Len(choices))

\* the value of a window that occurs most often in it; among the values of
\* equal frequency, the one whose first occurrence is the earliest
EarliestMode(w) ==
    LET first(v) == CHOOSE i \in 1..Len(w) : w[i] = v /\ \A j \in 1..(i - 1) : w[j] # v
    IN  CHOOSE v \in {w[i] : i \in 1..Len(w)} :
            \A u \in {w[i] : i \in 1..Len(w)} :
                \/ Count(w, v) > Count(w, u)
                \/ Count(w, v) = Count(w, u) /\ first(v) <= first(u)

\* C20: after a row that was not skipped, the trip committed for it is the
\* most frequent one among the last min(n, K) trips chosen for rows not
\* skipped (K = 5, the row's own choice included), the earliest to have
\* entered the window among equally frequent ones; a window of one choice
\* commits that choice.
C20_WindowCommit ==
    (no_methods # <<>> /\ PyAt(no_methods, -1) # 3) =>
        /\ K = KDefault
        /\ Len(results_trip) = Len(no_methods)
        /\ PyAt(results_trip, -1) = EarliestMode(VoteWindow)
        /\ Len(VoteWindow) = 1 => PyAt(results_trip, -1) = PyAt(choices, -1)

\* the sixth choice has entered a window that had evicted the first, after
\* a skipped row: the committed trip is not the mode of all six choices
C20_Witness ==
    /\ Len(choices) = K + 1
    /\ Len(no_methods) > Len(choices)
    /\ PyAt(no_methods, -1) # 3
    /\ PyAt(results_trip, -1) # EarliestMode(choices)
    /\ \E i \in 1..Len(results_trip) : results_trip[i] # choices[1]

\* C25 as claimed: for a window of two or more fixes, the accumulator the
\* asynchronous path finalizes holds only what the first fix contributed,
\* and the result it publishes differs from that of the synchronous path.
C25_AsyncVsSyncAsClaimed ==
    (ppc = "done" /\ Len(gps) >= 2) =>
        /\ gathered_first(first_preds, preds) = first_preds
        /\ eta_result # predict_eta(gps).result

\* C25 amended: the accumulator the asynchronous path finalizes holds the
\* entries of every fix of the window, and the asynchronous path publishes
\* what the synchronous path publishes for the same window, or fails where
\* it fails.
C25_AsyncVsSync ==
    /\ ppc = "done" =>
           /\ \A i \in 1..Len(gps) : \A k \in 1..Len(row_stops[i]) :
                  Len(gathered_first(first_preds, preds)[row_stops[i][k]]) >=
                      Cardinality({j \in 1..Len(gps) : row_stops[i][k] \in
                                      {row_stops[j][m] : m \in 1..Len(row_stops[j])}})
           /\ predict_eta(gps).ok
           /\ eta_result = predict_eta(gps).result
    /\ ppc = "error" => ~predict_eta(gps).ok

\* a window of two fixes has been finalized and publishes a stop: the
\* accumulator of the first fix alone would publish none
C25_Witness ==
    /\ ppc = "done"
    /\ Len(gps) = 2
    /\ gps[1] # gps[2]
    /\ DOMAIN eta_result # {}
    /\ first_preds # preds
    /\ DOMAIN finalize_predictions(first_preds, Len(gps)) = {}

\* C24 as claimed: the first of the rows generated for a fix is the fix
\* itself, with its own latitude, longitude, prev_stop, next_stop and
\* next_stop_dist, wherever its next stop stands in the trip's stop list.
C24_FirstVirtualRowAsClaimed ==
    (row_i >= 1 /\ modified_rows.rows # <<>>) =>
        modified_rows.rows[1] = gps[row_i]

\* C29 as claimed: within the virtual rows generated for one fix no stop
\* occurs as next_stop more than once, so a fix adds at most one entry per
\* stop to the accumulator.
C29_NoRepeatedStopAsClaimed ==
    \A i \in 1..Len(row_stops) : \A k \in 1..Len(row_stops[i]) :
        Contributed(i, row_stops[i][k]) = 1

\* the rows not skipped whose own choice is not the trip D
OddChoices(D) == {i \in 1..Len(choices) : choices[i] # D}

\* C23: if the choices of the rows not skipped are all the same trip D but
\* for one row, which is not the first, every trip committed so far is D.
C23_Smoothing ==
    \A D \in {trip1_name_of(route_name), trip2_name_of(route_name)} :
        (choices # <<>> /\ choices[1] = D /\ Cardinality(OddChoices(D)) <= 1)
            => \A i \in 1..Len(results_trip) : results_trip[i] = D

\* seven rows, one of them skipped: the second choice was the other trip,
\* the queue has evicted since, and all seven committed trips are the first
C23_Witness ==
    /\ Len(no_methods) = MaxVotes
    /\ Len(choices) = K + 1
    /\ OddChoices(choices[1]) = {2}
    /\ \A i \in 1..Len(results_trip) : results_trip[i] = choices[1]

\* C28 as claimed: for every window size K >= 1 the loop never blocks on
\* the full queue, the first fix is never a skip, and on return there is
\* one committed trip per fix, each a directional trip of the corridor.
C28_TotalityAsClaimed ==
    /\ vpc # "blocked"
    /\ no_methods # <<>> => no_methods[1] # 3
    /\ vpc = "done" =>
           /\ Len(results_trip) = Len(no_methods)
           /\ \A i \in 1..Len(results_trip) :
                  results_trip[i] \in {trip1_name_of(route_name),
                                       trip2_name_of(route_name)}

\* C19 as claimed: with 8 bins, every stop of the table gets an integer
\* bin from 1 to 7, whatever its mean ETA between 0 and the greatest mean
\* ETA of the table, 0 and the greatest included.
C19_BinRangeAsClaimed ==
    (bpc = "done" /\ b_out.ok) =>
        \A seq \in DOMAIN b_table : b_out.df[seq] \in 1..(NumBins - 1)

\* the hour the iteration reads at its head
IterationHour == (now \div 3600) % 24

\* C16: an iteration of the poll loop whose hour h is in 1 <= h < 5 goes
\* straight to the sleep and leaves the history lists, everything pushed,
\* the ETA store, the fetched frame and the prediction as they were; an
\* iteration at any other hour runs poll_api on a fetched frame.
C16_OffHours ==
    [][(tpc = "poll" /\ tpc' # "poll") =>
          IF OffHoursFrom <= IterationHour /\ IterationHour < OffHoursTo
          THEN /\ tpc' = "sleep"
               /\ UNCHANGED <<history, push_log, eta_store, relogin, tick_df,
                              tick_prediction, tick_tasks, history0, eta_store0>>
          ELSE /\ tpc' \in {"prune", "dead"}
               /\ history0' = history
               /\ eta_store0' = eta_store
               /\ \E fetched \in Feeds : Len(tick_df') = Len(fetched)]_vars

\* an iteration at 01:00:00 went to the sleep with history lists and an ETA
\* store that a poll would have changed
C16_Witness ==
    /\ tpc = "sleep"
    /\ ticks = 1
    /\ now = OffHoursFrom * 3600
    /\ Len(history["B1"]) = HistoryCap
    /\ eta_store # <<>>

--------------------------------------------------------------------------
(* The specifications: each runs one component and holds the others idle   *)

IdleVoter ==
    /\ K = KDefault
    /\ route_name = "4B"
    /\ previous_point = NoPoint
    /\ queueK = <<>>
    /\ results_trip = <<>>
    /\ no_methods = <<>>
    /\ last_row = NoPoint
    /\ prev_row = NoPoint
    /\ pp_before = NoPoint
    /\ on_shapes = {}
    /\ gaps_ok = TRUE
    /\ choices = <<>>
    /\ vpc = "idle"

IdleProj ==
    /\ gps = <<>>
    /\ ppc = "idle"
    /\ row_i = 0
    /\ preds = <<>>
    /\ row_stops = <<>>
    /\ modified_rows = [rows |-> <<>>, halted |-> FALSE, error |-> FALSE]
    /\ eta_result = <<>>
    /\ first_preds = <<>>

IdlePre ==
    /\ raw_batch = <<>>
    /\ once = Raised("not called")
    /\ twice = Raised("not called")
    /\ prepc = "idle"
    /\ b_table = <<>>
    /\ b_out = Raised("not called")
    /\ bpc = "idle"

IdleDriver ==
    /\ d_df = <<>>
    /\ d_i = 0
    /\ d_results = <<>>
    /\ d_flags = <<>>
    /\ d_out = <<>>
    /\ dpc = "idle"

IdleTick ==
    /\ history = [bus \in Buses |-> <<>>]
    /\ eta_store = <<>>
    /\ now = 0
    /\ tpc = "idle"
    /\ relogin = FALSE
    /\ ticks = 0
    /\ history0 = [bus \in Buses |-> <<>>]
    /\ eta_store0 = <<>>
    /\ tick_df = <<>>
    /\ tick_prediction = [ran |-> FALSE, prediction |-> <<>>]
    /\ tick_tasks = <<>>
    /\ push_log = [bus \in Buses |-> <<>>]
    /\ prune_store0 = <<>>
    /\ prune_now = 0
    /\ InitSock

StartVoter == InitVoter /\ IdleProj /\ InitShape /\ IdlePre /\ IdleDriver /\ IdleTick /\ IdleThreads
SpecVoter == StartVoter /\ [][NextVoter]_vars

StartProjector == InitProj /\ IdleVoter /\ InitShape /\ IdlePre /\ IdleDriver /\ IdleTick /\ IdleThreads
SpecProj == StartProjector /\ [][NextProjector]_vars

StartNsd == InitShape /\ IdleVoter /\ IdleProj /\ IdlePre /\ IdleDriver /\ IdleTick /\ IdleThreads
SpecShape == StartNsd /\ [][NextNsd]_vars

StartPreprocess == InitPre /\ IdleVoter /\ IdleProj /\ InitShape /\ IdleDriver /\ IdleTick /\ IdleThreads
SpecPre == StartPreprocess /\ [][NextPreprocess]_vars

StartDriver == InitDriver /\ IdleVoter /\ IdleProj /\ InitShape /\ IdlePre /\ IdleTick /\ IdleThreads
SpecDriver == StartDriver /\ [][NextDriver]_vars

StartTicks == InitTick /\ IdleVoter /\ IdleProj /\ InitShape /\ IdlePre /\ IdleDriver /\ IdleThreads
Spec == StartTicks /\ [][NextTicks]_vars

StartThreads ==
    /\ InitThreads /\ InitShape /\ IdleVoter /\ IdleProj /\ IdlePre /\ IdleDriver
    /\ IdleTick
SpecThreads == StartThreads /\ [][NextThreads]_vars

\* the poll loop under the scheduling of the event loop: a coroutine that
\* can go on is resumed
StartBins == InitBins /\ IdleVoter /\ IdleProj /\ InitShape /\ IdleDriver /\ IdleTick /\ IdleThreads
SpecBins == StartBins /\ [][NextBins]_vars

StartWindow == InitWindow /\ IdleProj /\ InitShape /\ IdlePre /\ IdleDriver /\ IdleTick /\ IdleThreads
SpecWindow == StartWindow /\ [][NextWindow]_vars

StartSizes == InitSizes /\ IdleProj /\ InitShape /\ IdlePre /\ IdleDriver /\ IdleTick /\ IdleThreads
SpecSizes == StartSizes /\ [][NextWindow]_vars

StartSock == IdleTick /\ IdleVoter /\ IdleProj /\ InitShape /\ IdlePre /\ IdleDriver /\ IdleThreads
SpecSock == StartSock /\ [][NextSock]_vars

SpecLive == StartTicks /\ [][NextTicks]_vars /\ WF_vars(NextTicks)

====
